---- MODULE Spec2Model ----
(***************************************************************************)
(* Career AI Agent: the conversation router, the file-backed state store   *)
(* and the resume operations, as a state machine.                          *)
(*                                                                         *)
(* Two deployments share the analytics layer: the FastAPI backend          *)
(* (backend/app.py over backend/memory.py) and the Gradio application      *)
(* (app.py over memory.py).  The variable app says which one is running.   *)
(* Text is modelled by TLA+ strings; emoji of the source are written as    *)
(* bracketed ASCII tags such as [wave].                                    *)
(***************************************************************************)
EXTENDS Naturals, Integers, Sequences, FiniteSets, TLC

VARIABLES
    app,      \* "backend" or "gradio": the deployment that is running
    file,     \* data/memory.json: [status, data], data maps user ids to records
    clock,    \* the value datetime.utcnow() last returned
    chats,    \* router calls made so far
    last,     \* the last handler call: its locals, its reply and the calls it made
    histLog,  \* every history entry appended for "default" since the last clear
    pairLog,  \* every conversation pair appended for "default" since the last clear
    procs     \* the calls in progress at once: each one's position and locals

vars == <<app, file, clock, chats, last, histLog, pairLog, procs>>

(***************************************************************************)
(* Bounds of the model.                                                    *)
(***************************************************************************)
MaxChats == 3
MaxResumeChats == 2
MaxCapCalls == 51
MaxClock == 1
MaxScore == 100
MaxRouteChats == 2
MaxWriters == 2
MaxCallers == 2
MaxStoreWrites == 3

(***************************************************************************)
(* Program constants.                                                      *)
(***************************************************************************)
MAX_HISTORY_LENGTH == 50
MAX_CONVERSATION_PAIRS == 20
HISTORY_RESPONSE_CHARS == 500
PAIR_RESPONSE_CHARS == 1000
RESUME_TEXT_CHARS == 3000
RESUME_PROMPT_CHARS == 1000
None == -1

(***************************************************************************)
(* Strings: str.lower, str.strip, the in operator, slicing, str.replace.   *)
(***************************************************************************)
Ch(s, i) == SubSeq(s, i, i)

UpperCase == "ABCDEFGHIJKLMNOPQRSTUVWXYZ"
LowerCase == "abcdefghijklmnopqrstuvwxyz"

LowerOf ==
    [c \in {Ch(UpperCase, i) : i \in 1..26} |->
        Ch(LowerCase, CHOOSE i \in 1..26 : Ch(UpperCase, i) = c)]

UpperOf ==
    [c \in {Ch(LowerCase, i) : i \in 1..26} |->
        Ch(UpperCase, CHOOSE i \in 1..26 : Ch(LowerCase, i) = c)]

\* str.upper
RECURSIVE Upper(_)
Upper(s) ==
    IF Len(s) = 0 THEN ""
    ELSE (IF Ch(s, 1) \in DOMAIN UpperOf THEN UpperOf[Ch(s, 1)] ELSE Ch(s, 1))
         \o Upper(SubSeq(s, 2, Len(s)))

\* str.lower
RECURSIVE Lower(_)
Lower(s) ==
    IF Len(s) = 0 THEN ""
    ELSE (IF Ch(s, 1) \in DOMAIN LowerOf THEN LowerOf[Ch(s, 1)] ELSE Ch(s, 1))
         \o Lower(SubSeq(s, 2, Len(s)))

IsSpace(c) == c \in {" ", "\n", "\t", "\r", "\f"}

RECURSIVE LStrip(_)
LStrip(s) ==
    IF Len(s) > 0 /\ IsSpace(Ch(s, 1)) THEN LStrip(SubSeq(s, 2, Len(s))) ELSE s

RECURSIVE RStrip(_)
RStrip(s) ==
    IF Len(s) > 0 /\ IsSpace(Ch(s, Len(s))) THEN RStrip(SubSeq(s, 1, Len(s) - 1)) ELSE s

Strip(s) == RStrip(LStrip(s))

\* k in s
Contains(s, k) ==
    \E i \in 0..(Len(s) - Len(k)) : SubSeq(s, i + 1, i + Len(k)) = k

\* s[:n]
Take(s, n) == IF Len(s) > n THEN SubSeq(s, 1, n) ELSE s

\* s[-n:] of a list
LastN(s, n) == IF Len(s) > n THEN SubSeq(s, Len(s) - n + 1, Len(s)) ELSE s

\* s.replace(old, new).  The program passes an empty old only with an empty
\* new (a location of ""), and str.replace then returns s.
\* The occurrences are replaced from the left, each search starting after the
\* occurrence before.
RECURSIVE Replace(_, _, _)
Replace(s, old, new) ==
    LET hits == IF old = "" THEN {}
                ELSE {i \in 1..(Len(s) - Len(old) + 1) :
                         SubSeq(s, i, i + Len(old) - 1) = old}
        from(i) == SubSeq(s, 1, i - 1) \o new
                   \o Replace(SubSeq(s, i + Len(old), Len(s)), old, new)
    IN IF hits = {} THEN s
       ELSE from(CHOOSE i \in hits : \A j \in hits : i <= j)

\* s.startswith(k)
StartsWith(s, k) == Len(s) >= Len(k) /\ SubSeq(s, 1, Len(k)) = k

\* s.split(sep) for a one-character sep: the pieces between the separators
RECURSIVE SplitAcc(_, _, _)
SplitAcc(s, sep, cur) ==
    IF Len(s) = 0 THEN <<cur>>
    ELSE IF Ch(s, 1) = sep
         THEN <<cur>> \o SplitAcc(SubSeq(s, 2, Len(s)), sep, "")
         ELSE SplitAcc(SubSeq(s, 2, Len(s)), sep, cur \o Ch(s, 1))

Split(s, sep) == SplitAcc(s, sep, "")

\* s.split(): the maximal runs of non-whitespace characters, from the
\* positions where a run starts and where it ends
Words(s) ==
    LET starts == {i \in 1..Len(s) :
                      ~IsSpace(Ch(s, i)) /\ (i = 1 \/ IsSpace(Ch(s, i - 1)))}
        ends == {i \in 1..Len(s) :
                    ~IsSpace(Ch(s, i)) /\ (i = Len(s) \/ IsSpace(Ch(s, i + 1)))}
        nth(S, k) == CHOOSE x \in S : Cardinality({y \in S : y < x}) = k - 1
    IN [k \in 1..Cardinality(starts) |-> SubSeq(s, nth(starts, k), nth(ends, k))]

\* sep.join(parts)
RECURSIVE Join(_, _)
Join(parts, sep) ==
    IF Len(parts) = 0 THEN ""
    ELSE IF Len(parts) = 1 THEN parts[1]
    ELSE parts[1] \o sep \o Join(Tail(parts), sep)

\* c * n: the empty string for n <= 0
RECURSIVE Repeat(_, _)
Repeat(c, n) == IF n <= 0 THEN "" ELSE c \o Repeat(c, n - 1)

Digits == "0123456789"

DigitOf ==
    [c \in {Ch(Digits, i) : i \in 1..Len(Digits)} |->
        (CHOOSE i \in 1..Len(Digits) : Ch(Digits, i) = c) - 1]

IsDigit(c) == c \in DOMAIN DigitOf

\* the run of digits s begins with
RECURSIVE DigitRun(_)
DigitRun(s) ==
    IF Len(s) > 0 /\ IsDigit(Ch(s, 1)) THEN Ch(s, 1) \o DigitRun(SubSeq(s, 2, Len(s)))
    ELSE ""

\* int(s) for a string of digits
RECURSIVE ToInt(_)
ToInt(s) ==
    IF Len(s) = 0 THEN 0
    ELSE 10 * ToInt(SubSeq(s, 1, Len(s) - 1)) + DigitOf[Ch(s, Len(s))]

\* a dict with key k set to v
Put(d, k, v) == (k :> v) @@ d

\* d.get(k, default)
Get(d, k, default) == IF k \in DOMAIN d THEN d[k] ELSE default

EmptyDict == [x \in {} |-> 0]

(***************************************************************************)
(* backend/memory.py: the state store of the backend.                      *)
(***************************************************************************)
interview_default == [index |-> 0, answers |-> <<>>, started_at |-> None]

create_empty_memory(now) ==
    [history |-> <<>>, conversation_pairs |-> <<>>, resume_text |-> "",
     resume_uploaded |-> FALSE, resume_file |-> "", star_mode |-> FALSE,
     last_response |-> "", created_at |-> now, updated_at |-> now,
     interview |-> interview_default]

required_fields ==
    [history |-> <<>>, conversation_pairs |-> <<>>, resume_text |-> "",
     resume_uploaded |-> FALSE, resume_file |-> "", star_mode |-> FALSE,
     last_response |-> "", interview |-> interview_default]

ensure_memory_structure(memory, now) ==
    LET filled == memory @@ required_fields
        interview == filled["interview"] @@ interview_default
    IN Put(Put(filled, "interview", interview), "updated_at", now)

\* The file as json.load reads it: "missing", "corrupt" (unreadable or not JSON)
\* or "ok" with the decoded mapping in data.
MissingFile == [status |-> "missing", data |-> EmptyDict]

load_memory(f, user_id, now) ==
    IF f.status = "missing" THEN create_empty_memory(now)
    ELSE IF f.status = "corrupt" THEN create_empty_memory(now)
    ELSE ensure_memory_structure(Get(f.data, user_id, EmptyDict), now)

\* save_memory writing the user's record alone, without the records read.
save_memory_alone(f, user_id, memory, now) ==
    [status |-> "ok",
     data |-> Put(EmptyDict, user_id, ensure_memory_structure(memory, now))]

save_memory(f, user_id, memory, now) ==
    LET all_memory == IF f.status = "ok" THEN f.data ELSE EmptyDict
    IN [status |-> "ok",
        data |-> Put(all_memory, user_id, ensure_memory_structure(memory, now))]

user_entry(user_input, now) ==
    [time |-> now, user |-> user_input, type |-> "user_input"]

assistant_entry(response, now) ==
    [time |-> now, assistant |-> Take(response, HISTORY_RESPONSE_CHARS),
     type |-> "assistant_response"]

pair_entry(user_input, response, now) ==
    [user |-> user_input, assistant |-> Take(response, PAIR_RESPONSE_CHARS),
     timestamp |-> now]

\* The entries one add_to_history call appends; response "" stands for None and
\* for the empty string, which "if response:" treats alike.
new_history(user_input, response, now) ==
    <<user_entry(user_input, now)>>
    \o (IF response # "" THEN <<assistant_entry(response, now)>> ELSE <<>>)

new_pairs(user_input, response, now) ==
    IF response # "" THEN <<pair_entry(user_input, response, now)>> ELSE <<>>

\* trim_history keeping the oldest entries.
trim_history_oldest(history) == Take(history, MAX_HISTORY_LENGTH)

trim_history(history) == LastN(history, MAX_HISTORY_LENGTH)

trim_pairs(pairs) == LastN(pairs, MAX_CONVERSATION_PAIRS)

add_to_history(f, user_id, user_input, response, now) ==
    LET memory == load_memory(f, user_id, now)
        m1 == Put(memory, "history",
                  trim_history(memory["history"] \o new_history(user_input, response, now)))
        m2 == IF response # ""
              THEN Put(m1, "conversation_pairs",
                       trim_pairs(m1["conversation_pairs"]
                                  \o new_pairs(user_input, response, now)))
              ELSE m1
        m3 == IF response # "" THEN Put(m2, "last_response", response) ELSE m2
        m4 == Put(m3, "updated_at", now)
    IN save_memory(f, user_id, m4, now)

set_resume(f, user_id, resume_text, file_path, now) ==
    LET memory == load_memory(f, user_id, now)
        m1 == Put(Put(Put(Put(memory, "resume_text", resume_text),
                          "resume_uploaded", TRUE),
                      "resume_file", file_path),
                  "updated_at", now)
    IN save_memory(f, user_id, m1, now)

\* clear_resume lowering the flag and keeping the text.
clear_resume_flag_only(f, user_id, now) ==
    LET memory == load_memory(f, user_id, now)
        m1 == Put(Put(memory, "resume_uploaded", FALSE), "updated_at", now)
    IN save_memory(f, user_id, m1, now)

clear_resume(f, user_id, now) ==
    LET memory == load_memory(f, user_id, now)
        m1 == Put(Put(Put(Put(memory, "resume_text", ""),
                          "resume_uploaded", FALSE),
                      "resume_file", ""),
                  "updated_at", now)
    IN save_memory(f, user_id, m1, now)

is_resume_uploaded(f, user_id, now) ==
    Get(load_memory(f, user_id, now), "resume_uploaded", FALSE)

get_resume_text(f, user_id, now) ==
    Get(load_memory(f, user_id, now), "resume_text", "")

\* set_star_mode storing True whatever it is given.
set_star_mode_on(f, user_id, enabled, now) ==
    LET memory == load_memory(f, user_id, now)
        m1 == Put(Put(memory, "star_mode", TRUE), "updated_at", now)
    IN save_memory(f, user_id, m1, now)

set_star_mode(f, user_id, enabled, now) ==
    LET memory == load_memory(f, user_id, now)
        m1 == Put(Put(memory, "star_mode", enabled), "updated_at", now)
    IN save_memory(f, user_id, m1, now)

is_star_mode(f, user_id, now) ==
    Get(load_memory(f, user_id, now), "star_mode", FALSE)

\* update_interview_progress(user_id, answer); answer is <<>> for None and
\* <<a>> for the answer a.
update_interview_progress(f, user_id, answer, now) ==
    LET memory == load_memory(f, user_id, now)
        interview == Get(memory, "interview", interview_default)
        answers == interview.answers \o answer
        i1 == [interview EXCEPT !.answers = answers, !.index = Len(answers),
                                !.started_at = IF @ = None THEN now ELSE @]
        m1 == Put(Put(memory, "interview", i1), "updated_at", now)
    IN save_memory(f, user_id, m1, now)

\* clear_memory emptying the record of every user in the file.
clear_memory_everyone(f, user_id, now) ==
    [status |-> "ok",
     data |-> [u \in DOMAIN save_memory(f, user_id, EmptyDict, now).data |->
                  ensure_memory_structure(create_empty_memory(now), now)]]

\* clear_memory emptying the resume fields only.
clear_memory_history_kept(f, user_id, now) == clear_resume(f, user_id, now)

clear_memory(f, user_id, now) ==
    save_memory(f, user_id, create_empty_memory(now), now)

(***************************************************************************)
(* memory.py: the state store of the Gradio application.                   *)
(***************************************************************************)
\* json.load is called outside any try block in load_memory and in
\* save_memory: both raise json.JSONDecodeError on a file that is not JSON.
\* Only the clients of SpecStore meet such a file.
root_json_raises(f) == f.status = "corrupt"

root_load_memory(f, user_id) ==
    IF f.status = "missing" THEN EmptyDict ELSE Get(f.data, user_id, EmptyDict)

root_save_memory(f, user_id, memory) ==
    LET all_memory == IF f.status = "ok" THEN f.data ELSE EmptyDict
    IN [status |-> "ok", data |-> Put(all_memory, user_id, memory)]

(***************************************************************************)
(* The inputs of the handlers and the outcomes of the services they call.  *)
(* The text functions of the handlers are tabulated over these sets, so    *)
(* that each is computed once for each input.                              *)
(***************************************************************************)
\* The messages of the router's branches and of the overlaps between them.
RouterMessages ==
    {" Hello\n", "greetings", "hi there",
     "I want to practice a behavioral question",
     "a STAR story for my job interview",
     "I led a team that shipped X",
     "what jobs fit based on my resume",
     "improve my resume",
     "find me a job",
     "interview question tips for a job"}

\* The messages that ask about the resume.
ResumeMessages ==
    {"what jobs fit based on my resume",
     "improve my resume",
     "interview questions from my resume",
     "summarize my resume",
     "Jobs suitable for me"}

\* The message of a long conversation.
CapMessages == {"Hi"}

\* Messages for the branches below the resume markers: job keywords with and
\* without "improve" + "resume" and "interview" + "question".
RouteMessages ==
    {"interview question tips for a job",
     "interview question tips",
     "improve the resume",
     "improve the resume for a job",
     "any vacancy",
     "I led a team that shipped X",
     "I want to practice a behavioral question"}

Messages == RouterMessages \cup ResumeMessages \cup CapMessages \cup RouteMessages

Users == {"default", "alice"}

\* The fields a client of the store sets on a record before saving it.
Edits ==
    {[key |-> "star_mode", value |-> TRUE],
     [key |-> "last_response", value |-> "Here is some career advice."]}

LlmOutcomes ==
    {[ok |-> TRUE, text |-> "Here is some career advice.\n"],
     [ok |-> FALSE, text |-> "429 quota exceeded"]}

GoodCard ==
    [broken |-> FALSE, title |-> <<" Python Developer ">>, company |-> <<"Acme">>,
     location |-> <<"Remote">>, href |-> <<"/jobs/view/123456/">>,
     meta |-> <<<<"Remote", " 2 days  ago ">>>>]

Upstreams ==
    {[raised |-> TRUE, status_code |-> 0, cards |-> <<>>],
     [raised |-> FALSE, status_code |-> 200, cards |-> <<GoodCard>>]}

RootUpstreams ==
    {[key |-> TRUE, raised |-> FALSE, status_code |-> 200,
      data |-> <<[job_title |-> "Python Developer", employer_name |-> "Acme"]>>],
     [key |-> TRUE, raised |-> TRUE, status_code |-> 0, data |-> <<>>]}

Uploads ==
    {[filename |-> "cv.PDF", pages |-> <<"Python developer", "">>, fails |-> FALSE],
     [filename |-> "scan.pdf", pages |-> <<"">>, fails |-> FALSE],
     [filename |-> "bad.pdf", pages |-> <<>>, fails |-> TRUE],
     [filename |-> "cv.docx", pages |-> <<"Java engineer">>, fails |-> FALSE]}

JobDescriptions == {"Backend engineer with Python", " "}

\* The score fields of heatmap rows: every score the prompt asks for, and
\* fields that are out of range, hold no digit or hold more than a number.
ScoreTexts ==
    {ToString(score) : score \in 0..MaxScore}
    \cup {"150", "abc", "", "1234", "-5", "99.5%", "score 42 of 100", "n/a", "007",
          "100%", "1000", "8 / 10"}

\* The queries handed to the job search on its own.
JobQueries ==
    {"python developer", "find me a job", "jobs for", "C++ & C# developer",
     "data scientist, remote", "Jobs suitable for me", "devops engineer", "intern"}

BrokenCard == [GoodCard EXCEPT !.broken = TRUE]

\* A card whose metadata holds n times two words with a double space after
\* them: 11 n - 1 characters once the whitespace is collapsed.
BusyCard(n) == [GoodCard EXCEPT !.meta = <<<<"Remote", Repeat("great team  ", n)>>>>]

\* Resume texts for the search by skills: each keyword alone, two keywords at
\* once, and none.
SkillResumes ==
    {"Python and Java developer",
     "JavaScript and React developer",
     "Senior Java engineer",
     "Data analyst, SQL",
     "AWS architect",
     "Cloud operations",
     "Sales manager",
     "JavaScript, Python, cloud"}

\* What the LinkedIn request can come to: it raises, it is refused, the page has
\* no card, every card of the page fails to parse, some cards parse (with
\* metadata of 120 and of 131 characters among them).
JobUpstreams ==
    {[raised |-> TRUE, status_code |-> 0, cards |-> <<>>],
     [raised |-> FALSE, status_code |-> 404, cards |-> <<>>],
     [raised |-> FALSE, status_code |-> 429, cards |-> <<GoodCard>>],
     [raised |-> FALSE, status_code |-> 200, cards |-> <<>>],
     [raised |-> FALSE, status_code |-> 200, cards |-> <<BrokenCard, BrokenCard>>],
     [raised |-> FALSE, status_code |-> 200, cards |-> <<GoodCard>>],
     [raised |-> FALSE, status_code |-> 200, cards |-> <<BrokenCard, GoodCard>>],
     [raised |-> FALSE, status_code |-> 200, cards |-> <<BusyCard(11)>>],
     [raised |-> FALSE, status_code |-> 200, cards |-> <<BusyCard(12)>>]}

\* What the JSearch request can come to, with and without a configured key.
RootJobUpstreams ==
    {[key |-> FALSE, raised |-> FALSE, status_code |-> 0, data |-> <<>>],
     [key |-> TRUE, raised |-> TRUE, status_code |-> 0, data |-> <<>>],
     [key |-> TRUE, raised |-> FALSE, status_code |-> 500, data |-> <<>>],
     [key |-> TRUE, raised |-> FALSE, status_code |-> 200, data |-> <<>>],
     [key |-> TRUE, raised |-> FALSE, status_code |-> 200,
      data |-> <<[job_title |-> "Python Developer", employer_name |-> "Acme"]>>]}

HeatmapOutcomes ==
    {[ok |-> TRUE, text |-> "Section | Score | Explanation\nSkills | 150 | strong\nSummary | n/a | thin"],
     [ok |-> TRUE, text |-> "| Skills | 80 | good |"],
     [ok |-> TRUE, text |-> "Skills | 80 | uses Python | Django daily"],
     [ok |-> TRUE, text |-> "Here is the table:\n\nSection | Score | Explanation\n--- | --- | ---\nSkills | 75 | solid\n"],
     [ok |-> TRUE, text |-> "Skills | 80\nSummary: 60"],
     [ok |-> TRUE, text |-> "I cannot compare these documents."],
     [ok |-> TRUE, text |-> "Section | Score | Explanation\n"],
     [ok |-> TRUE, text |-> " \n"]}

(***************************************************************************)
(* llm.py: the External Model Gateway.  An outcome o of the provider call  *)
(* is [ok, text]: the text it returned, or the detail of the exception.    *)
(***************************************************************************)
SYSTEM_PROMPT == "You are a Career AI Assistant."

WARNING_MARKER == "[warning] LLM error: "

Prompt(template, a, b, c) == [template |-> template, a |-> a, b |-> b, c |-> c]

full_prompt(user_prompt) == [system |-> SYSTEM_PROMPT, user_prompt |-> user_prompt]

\* llm_text giving the bare detail of a failure, without the marker.
llm_text_detail_only(o) == IF o.ok THEN Strip(o.text) ELSE o.text

\* response.text.strip(), or the string the except clause builds
llm_text(o) == IF o.ok THEN Strip(o.text) ELSE WARNING_MARKER \o o.text

llm_text_of == [o \in LlmOutcomes \cup HeatmapOutcomes |-> llm_text(o)]

query_llm(user_prompt, o) ==
    [response |-> llm_text_of[o], llm |-> <<full_prompt(user_prompt)>>]

(***************************************************************************)
(* analytics.py: the prompt templates and the heatmap post-processor.      *)
(* Each takes the record its load_memory() call returned.                  *)
(***************************************************************************)
UPLOAD_NOTICE == "[page] Please upload your resume first."

NoLlm(response) == [response |-> response, llm |-> <<>>]

analyze_resume_for_role(memory, target_role, o) ==
    LET resume_text == Get(memory, "resume_text", "")
    IN IF resume_text = "" THEN NoLlm(UPLOAD_NOTICE)
       ELSE query_llm(Prompt("resume_for_role", resume_text, target_role, ""), o)

detect_skill_gaps(memory, job_description, o) ==
    LET resume_text == Get(memory, "resume_text", "")
    IN IF resume_text = "" THEN NoLlm(UPLOAD_NOTICE)
       ELSE query_llm(Prompt("skill_gaps", resume_text, job_description, ""), o)

calculate_resume_job_match(memory, job_description, o) ==
    LET resume_text == Get(memory, "resume_text", "")
    IN IF resume_text = "" THEN NoLlm(UPLOAD_NOTICE)
       ELSE query_llm(Prompt("job_match", resume_text, job_description, ""), o)

reverse_job_matcher(memory, o) ==
    LET resume_text == Get(memory, "resume_text", "")
    IN IF resume_text = "" THEN NoLlm(UPLOAD_NOTICE)
       ELSE query_llm(Prompt("reverse_match", resume_text, "", ""), o)

\* build_star_story sending the story without the STAR template.
build_star_story_verbatim(raw_story, o) ==
    query_llm(Prompt("verbatim", raw_story, "", ""), o)

build_star_story(raw_story, o) ==
    query_llm(Prompt("star_story", raw_story, "", ""), o)

\* str.splitlines for "\n" line ends: no empty last line after a final "\n"
SplitLines(s) ==
    LET parts == Split(s, "\n")
    IN IF s = "" THEN <<>>
       ELSE IF parts[Len(parts)] = "" THEN SubSeq(parts, 1, Len(parts) - 1)
       ELSE parts

RECURSIVE StripAll(_)
StripAll(parts) ==
    IF Len(parts) = 0 THEN <<>> ELSE <<Strip(parts[1])>> \o StripAll(Tail(parts))

\* re.search(r"\d{1,3}", score_text): the match, "" if there is none
RECURSIVE FirstDigits(_)
FirstDigits(s) ==
    IF Len(s) = 0 THEN ""
    ELSE IF IsDigit(Ch(s, 1)) THEN Take(DigitRun(s), 3)
    ELSE FirstDigits(SubSeq(s, 2, Len(s)))

Min(a, b) == IF a < b THEN a ELSE b
Max(a, b) == IF a > b THEN a ELSE b

\* heat_score without the clamp of line 329.
heat_score_unclamped(score_text) ==
    LET match == FirstDigits(score_text)
    IN IF match # "" THEN ToInt(match) ELSE 0

heat_score(score_text) ==
    LET match == FirstDigits(score_text)
        score == IF match # "" THEN ToInt(match) ELSE 0
    IN Max(0, Min(score, 100))

heat_bar(score) == Repeat("*", score \div 10) \o Repeat("o", 10 - (score \div 10))

\* heat_verdict with 75 left out of the strong matches.
heat_verdict_exclusive(score) ==
    IF score > 75 THEN "Strong match"
    ELSE IF score >= 40 THEN "Partial match"
    ELSE "Weak match"

heat_verdict(score) ==
    IF score >= 75 THEN "Strong match"
    ELSE IF score >= 40 THEN "Partial match"
    ELSE "Weak match"

heat_icon(score) ==
    IF score >= 75 THEN "[green]" ELSE IF score >= 40 THEN "[yellow]" ELSE "[red]"

HEATMAP_HEADER == "[chart] **Resume Heatmap vs Job Description**\n\n"
HEATMAP_FAILED == "[warning] Could not generate heatmap."

heat_parts(line) == StripAll(Split(line, "|"))

\* The unpacking "section, score_text, explanation = parts" raises ValueError
\* on a line of more than three fields.
heat_line_raises(line) == Contains(line, "|") /\ Len(heat_parts(line)) > 3

heat_line_is_row(line) ==
    /\ Contains(line, "|")
    /\ Len(heat_parts(line)) = 3
    /\ Lower(heat_parts(line)[1]) \notin {"section", "score", "---"}

heat_row(line) ==
    LET parts == heat_parts(line)
        score == heat_score(parts[2])
    IN heat_icon(score) \o " **" \o Upper(parts[1]) \o "**\n"
       \o heat_bar(score) \o "  **" \o ToString(score) \o "% - " \o heat_verdict(score)
       \o "**\n_" \o parts[3] \o "_\n"

\* The loop over the lines up to the first raising line: [rows, raised]
RECURSIVE heat_lines(_)
heat_lines(lines) ==
    IF Len(lines) = 0 THEN [rows |-> <<>>, raised |-> FALSE]
    ELSE IF heat_line_raises(lines[1]) THEN [rows |-> <<>>, raised |-> TRUE]
    ELSE LET rest == heat_lines(Tail(lines))
         IN [rows |-> (IF heat_line_is_row(lines[1]) THEN <<heat_row(lines[1])>>
                       ELSE <<>>) \o rest.rows,
             raised |-> rest.raised]

\* The post-processing of the Gateway's answer: [response, raised]
heat_render(answer) ==
    LET rendered(parsed) ==
            IF parsed.raised THEN [response |-> "", raised |-> TRUE]
            ELSE IF Len(parsed.rows) = 0
            THEN [response |-> HEATMAP_FAILED, raised |-> FALSE]
            ELSE [response |-> HEATMAP_HEADER \o Join(parsed.rows, "\n"),
                  raised |-> FALSE]
    IN rendered(heat_lines(SplitLines(answer)))

heat_render_of == [o \in LlmOutcomes \cup HeatmapOutcomes |-> heat_render(llm_text(o))]

\* [response, llm, raised], and the Gateway's answer when it was asked
resume_heatmap(memory, jd_text, o) ==
    LET resume_text == Get(memory, "resume_text", "")
        asked == query_llm(Prompt("heatmap", resume_text, jd_text, ""), o)
        answered(rendered) ==
            [response |-> rendered.response, llm |-> asked.llm,
             raised |-> rendered.raised, answer |-> asked.response]
    IN IF resume_text = ""
       THEN [response |-> UPLOAD_NOTICE, llm |-> <<>>, raised |-> FALSE]
       ELSE answered(heat_render_of[o])

(***************************************************************************)
(* backend/jobs.py: the Job Source Adapter of the backend.  An upstream    *)
(* outcome up is [raised, status_code, cards]: the request raised, or      *)
(* answered with a status and the job cards of the page.  A card holds     *)
(* the text of each element as a sequence, empty when the element is       *)
(* absent; broken marks a card whose parsing raises.                       *)
(***************************************************************************)
DESCRIPTION_CHARS == 120
JOB_LIMIT == 5
CHAT_JOB_LIMIT == 3

Unreserved ==
    "ABCDEFGHIJKLMNOPQRSTUVWXYZabcdefghijklmnopqrstuvwxyz0123456789_.-~/"

UnreservedSet == {Ch(Unreserved, i) : i \in 1..Len(Unreserved)}

\* urllib.parse.quote of one character, for the ASCII characters queries hold
QuoteCh(c) ==
    IF c \in UnreservedSet THEN c
    ELSE CASE c = " " -> "%20"
           [] c = "+" -> "%2B"
           [] c = "#" -> "%23"
           [] c = "&" -> "%26"
           [] c = "?" -> "%3F"
           [] c = "'" -> "%27"
           [] c = "," -> "%2C"
           [] c = "!" -> "%21"
           [] c = ":" -> "%3A"
           [] c = "\n" -> "%0A"

RECURSIVE Quote(_)
Quote(s) == IF Len(s) = 0 THEN "" ELSE QuoteCh(Ch(s, 1)) \o Quote(SubSeq(s, 2, Len(s)))

\* re.search(r'/jobs/view/(\d+)', href): the digits of the first match, "" if none
JobViewPrefix == "/jobs/view/"

JobIdMatches(href) ==
    {i \in 1..Len(href) :
        /\ StartsWith(SubSeq(href, i, Len(href)), JobViewPrefix)
        /\ DigitRun(SubSeq(href, i + Len(JobViewPrefix), Len(href))) # ""}

JobId(href) ==
    LET ms == JobIdMatches(href)
        i == CHOOSE x \in ms : \A y \in ms : x <= y
    IN IF ms = {} THEN "" ELSE DigitRun(SubSeq(href, i + Len(JobViewPrefix), Len(href)))

\* metadata_elem.get_text(" ", strip=True)
RECURSIVE StrippedPieces(_)
StrippedPieces(pieces) ==
    IF Len(pieces) = 0 THEN <<>>
    ELSE (IF Strip(pieces[1]) = "" THEN <<>> ELSE <<Strip(pieces[1])>>)
         \o StrippedPieces(Tail(pieces))

get_text(pieces) == Join(StrippedPieces(pieces), " ")

ElemText(elem, default) == IF Len(elem) = 0 THEN default ELSE Strip(elem[1])

card_url(card, title, company) ==
    IF Len(card.href) > 0
    THEN LET href0 == card.href[1]
             href == IF StartsWith(href0, "/") THEN "https://www.linkedin.com" \o href0
                     ELSE href0
         IN IF Contains(href, "currentJobId=") THEN href
            ELSE IF JobId(href) # ""
                 THEN "https://www.linkedin.com/jobs/search/?currentJobId=" \o JobId(href)
                      \o "&keywords=" \o Replace(title, " ", "%20") \o "%20"
                      \o Replace(company, " ", "%20")
                 ELSE href
    ELSE "https://www.linkedin.com/jobs/search/?keywords="
         \o Replace(title \o " " \o company, " ", "%20")

truncate_description(description) ==
    IF Len(description) > DESCRIPTION_CHARS
    THEN SubSeq(description, 1, DESCRIPTION_CHARS) \o "..."
    ELSE description

card_description(card, title, company, location) ==
    LET raw == IF Len(card.meta) > 0
               THEN LET meta_text == Strip(Replace(get_text(card.meta[1]), location, ""))
                    IN IF meta_text # "" THEN meta_text ELSE title \o " at " \o company
               ELSE title \o " position at " \o company
    IN truncate_description(Join(Words(raw), " "))

\* _parse_card: <<job>>, or <<>> for the None a raising card gives
parse_card(card) ==
    IF card.broken THEN <<>>
    ELSE LET title == ElemText(card.title, "Job")
             company == ElemText(card.company, "Company")
             location == ElemText(card.location, "Remote")
         IN <<[title |-> title, company |-> company, location |-> location,
               description |-> card_description(card, title, company, location),
               url |-> card_url(card, title, company), source |-> "LinkedIn"]>>

get_search_link(query) ==
    <<[title |-> "Search " \o query \o " jobs on LinkedIn", company |-> "LinkedIn",
       location |-> "Worldwide",
       description |-> "Click to search real jobs on LinkedIn",
       url |-> "https://www.linkedin.com/jobs/search/?keywords=" \o Quote(query),
       source |-> "LinkedIn Search"]>>

RECURSIVE parse_cards(_)
parse_cards(cards) ==
    IF Len(cards) = 0 THEN <<>> ELSE parse_card(cards[1]) \o parse_cards(Tail(cards))

get_jobs(query, limit, up) ==
    IF up.raised THEN get_search_link(query)
    ELSE IF up.status_code # 200 THEN get_search_link(query)
    ELSE LET parsed(jobs) == IF Len(jobs) > 0 THEN jobs ELSE get_search_link(query)
         IN parsed(parse_cards(Take(up.cards, limit)))

format_job(job) ==
    LET display_url ==
            IF job.url # "" /\ job.url # "#" /\ Contains(job.url, "linkedin.com")
            THEN job.url
            ELSE "https://www.linkedin.com/jobs/search/?keywords="
                 \o Replace(job.title \o " " \o job.company, " ", "+")
    IN "**" \o job.title \o "**\n**Company:** " \o job.company
       \o "\n**Location:** " \o job.location
       \o "\n**Description:** " \o job.description
       \o "\n**Apply:** " \o display_url \o "\n---"

clean_query(query) ==
    LET q == Strip(Replace(Replace(query, "jobs", ""), "for", ""))
    IN IF q = "" THEN "developer" ELSE q

\* search_jobs: [jobs, calls]: the formatted listings and the queries sent upstream
search_jobs(query, up) ==
    LET formatted(found) == [i \in 1..Len(found) |-> format_job(found[i])]
    IN [jobs |-> formatted(get_jobs(clean_query(query), JOB_LIMIT, up)),
        calls |-> <<clean_query(query)>>]

skills_query(resume_text, role) ==
    LET resume_lower == Lower(resume_text)
    IN IF Contains(resume_lower, "python") THEN "python developer"
       ELSE IF Contains(resume_lower, "java") THEN "java developer"
       ELSE IF Contains(resume_lower, "javascript") THEN "javascript developer"
       ELSE IF Contains(resume_lower, "data") THEN "data scientist"
       ELSE IF Contains(resume_lower, "aws") \/ Contains(resume_lower, "cloud")
            THEN "devops engineer"
       ELSE role

search_jobs_by_skills(resume_text, role, up) ==
    search_jobs(skills_query(resume_text, role), up)

(***************************************************************************)
(* jobs.py: the job search of the Gradio application (JSearch API).  An    *)
(* outcome up is [key, raised, status_code, data].                         *)
(***************************************************************************)
ROOT_JOB_LIMIT == 3

\* [jobs, calls, raised]
root_search_jobs(query, up) ==
    IF ~up.key
    THEN [jobs |-> <<"[warning] Job search API key not configured">>,
          calls |-> <<>>, raised |-> FALSE]
    ELSE IF up.raised THEN [jobs |-> <<>>, calls |-> <<query>>, raised |-> TRUE]
    ELSE LET data == IF up.status_code = 200 THEN Take(up.data, ROOT_JOB_LIMIT) ELSE <<>>
             jobs == [i \in 1..Len(data) |->
                         data[i].job_title \o " @ " \o data[i].employer_name]
         IN [jobs |-> IF Len(jobs) > 0 THEN jobs ELSE <<"No jobs found">>,
             calls |-> <<query>>, raised |-> FALSE]

(***************************************************************************)
(* backend/app.py: the handlers of the backend.                            *)
(***************************************************************************)
GREETINGS == {"hi", "hello", "hey", "greetings"}
RESUME_MARKERS ==
    {"based on my resume", "from my resume", "my resume", "according to my resume"}
JOB_KEYWORDS == {"job", "jobs", "internship", "intern", "position", "opening", "vacancy"}

GREETING_REPLY ==
    "[wave] Hello! I'm your Career AI Assistant. How can I help with your career today?"
STAR_INSTRUCTIONS ==
    "[memo] I'll help you create a STAR interview answer. Please describe your experience or situation."
CHAT_UPLOAD_NOTICE ==
    "[page] Please upload your resume first using the upload button on the left."
DEFAULT_ROLE == "Software Engineer"

ContainsAny(text, keywords) == \E k \in keywords : Contains(text, k)

EndsWith(s, k) == Len(s) >= Len(k) /\ SubSeq(s, Len(s) - Len(k) + 1, Len(s)) = k

\* extract_text_from_file.  An upload u is [filename, pages, fails]: the text of
\* each page (of the whole file, for a .txt), and whether reading it raises.
RECURSIVE pdf_text(_)
pdf_text(pages) ==
    IF Len(pages) = 0 THEN ""
    ELSE (IF pages[1] # "" THEN pages[1] \o "\n" ELSE "") \o pdf_text(Tail(pages))

extract_text_from_file(u) ==
    IF EndsWith(Lower(u.filename), ".pdf")
    THEN (IF u.fails THEN "Error extracting text: " \o "No /Root object"
          ELSE Take(pdf_text(u.pages), RESUME_TEXT_CHARS))
    ELSE IF EndsWith(Lower(u.filename), ".txt")
    THEN (IF u.fails THEN "Error extracting text: " \o "Permission denied"
          ELSE Take(Join(u.pages, ""), RESUME_TEXT_CHARS))
    ELSE "Unsupported file: " \o u.filename

extract_text_of == [u \in Uploads |-> extract_text_from_file(u)]

\* if "Error" in resume_text
upload_rejected_of == [u \in Uploads |-> Contains(extract_text_of[u], "Error")]

ResumeTexts == {""} \cup {extract_text_of[u] : u \in Uploads}

\* text = user_input.lower().strip()
text_of == [m \in Messages |-> Strip(Lower(m))]

search_jobs_of == [m \in Messages, up \in Upstreams |-> search_jobs(m, up)]

search_jobs_by_skills_of ==
    [t \in ResumeTexts, up \in Upstreams |-> search_jobs_by_skills(t, DEFAULT_ROLE, up)]

\* if not job_description.strip()
blank_of == [jd \in JobDescriptions |-> Strip(jd) = ""]

\* chat_branch with the job keywords tested before the resume markers.
chat_branch_jobs_first(text, star_mode) ==
    IF text \in GREETINGS THEN "greeting"
    ELSE IF star_mode THEN "star_story"
    ELSE IF Contains(text, "star") \/ Contains(text, "behavioral")
            \/ Contains(text, "interview story") THEN "star_activate"
    ELSE IF ContainsAny(text, JOB_KEYWORDS) THEN "jobs"
    ELSE IF ContainsAny(text, RESUME_MARKERS) THEN "resume"
    ELSE "default"

\* chat_branch with the STAR continuation tested before the greeting.
chat_branch_star_first(text, star_mode) ==
    IF star_mode THEN "star_story"
    ELSE IF text \in GREETINGS THEN "greeting"
    ELSE IF Contains(text, "star") \/ Contains(text, "behavioral")
            \/ Contains(text, "interview story") THEN "star_activate"
    ELSE IF ContainsAny(text, RESUME_MARKERS) THEN "resume"
    ELSE IF ContainsAny(text, JOB_KEYWORDS) THEN "jobs"
    ELSE "default"

\* A chain that greets on the first call of the process only.
chat_branch_by_turn(text, star_mode) ==
    IF text \in GREETINGS /\ chats = 0 THEN "greeting"
    ELSE IF star_mode THEN "star_story"
    ELSE "default"

\* The if/elif chain of chat_endpoint: the branch a call takes.
chat_branch(text, star_mode) ==
    IF text \in GREETINGS THEN "greeting"
    ELSE IF star_mode THEN "star_story"
    ELSE IF Contains(text, "star") \/ Contains(text, "behavioral")
            \/ Contains(text, "interview story") THEN "star_activate"
    ELSE IF ContainsAny(text, RESUME_MARKERS) THEN "resume"
    ELSE IF ContainsAny(text, JOB_KEYWORDS) THEN "jobs"
    ELSE "default"

chat_branch_of ==
    [m \in Messages, star_mode \in BOOLEAN |-> chat_branch(text_of[m], star_mode)]

\* The if/elif chain inside branch 4, once a resume is on record.
resume_sub(text) ==
    IF Contains(text, "job") \/ Contains(text, "jobs") \/ Contains(text, "position")
       \/ Contains(text, "role") THEN "jobs"
    ELSE IF Contains(text, "improve") \/ Contains(text, "feedback")
            \/ Contains(text, "better") THEN "improve"
    ELSE IF Contains(text, "interview") /\ Contains(text, "question") THEN "interview"
    ELSE "question"

resume_sub_of == [m \in Messages |-> resume_sub(text_of[m])]

\* The test of branch 5 for a search by the resume's skills.
wants_personal(text) ==
    Contains(text, "suitable") \/ Contains(text, "for me")
    \/ Contains(text, "matching") \/ Contains(text, "fit")

wants_personal_of == [m \in Messages |-> wants_personal(text_of[m])]

Reply(sub, response, f, llm, jobs) ==
    [sub |-> sub, response |-> response, file |-> f, llm |-> llm, jobs |-> jobs]

\* Branch 4 answering with the resume and then clearing it.
chat_resume_clearing(f, user_input, resume_uploaded, resume_text, now, o, up) ==
    Reply("question", resume_text, clear_resume(f, "default", now), <<>>, <<>>)

\* Branch 4: resume-based questions.
chat_resume(f, user_input, resume_uploaded, resume_text, now, o, up) ==
    IF ~resume_uploaded THEN Reply("notice", CHAT_UPLOAD_NOTICE, f, <<>>, <<>>)
    ELSE IF resume_sub_of[user_input] = "jobs"
    THEN LET listed(found) ==
                 Reply("jobs",
                       IF Len(found.jobs) > 0
                       THEN "[search] **Jobs matching your resume:**\n\n"
                            \o Join(Take(found.jobs, CHAT_JOB_LIMIT), "\n\n")
                       ELSE "No matching jobs found. Try uploading your resume first.",
                       f, <<>>, found.calls)
         IN listed(search_jobs_by_skills_of[resume_text, up])
    ELSE IF resume_sub_of[user_input] = "improve"
    THEN LET asked == analyze_resume_for_role(load_memory(f, "default", now), DEFAULT_ROLE, o)
         IN Reply("improve", asked.response, f, asked.llm, <<>>)
    ELSE IF resume_sub_of[user_input] = "interview"
    THEN LET asked == query_llm(Prompt("resume_interview",
                                       Take(resume_text, RESUME_PROMPT_CHARS), "", ""), o)
         IN Reply("interview", asked.response, f, asked.llm, <<>>)
    ELSE LET asked == query_llm(Prompt("resume_question",
                                       Take(resume_text, RESUME_PROMPT_CHARS),
                                       user_input, ""), o)
         IN Reply("question", asked.response, f, asked.llm, <<>>)

\* Branch 5: job search.
chat_jobs(f, user_input, resume_uploaded, resume_text, up) ==
    IF resume_uploaded /\ wants_personal_of[user_input]
    THEN LET listed(found) ==
                 Reply("personal",
                       IF Len(found.jobs) > 0
                       THEN "[target] **Jobs matching your profile:**\n\n"
                            \o Join(found.jobs, "\n\n")
                       ELSE "No matching jobs found.",
                       f, <<>>, found.calls)
         IN listed(search_jobs_by_skills_of[resume_text, up])
    ELSE LET listed(found) ==
                 Reply("general",
                       IF Len(found.jobs) > 0
                       THEN "[briefcase] **Job Opportunities:**\n\n"
                            \o Join(found.jobs, "\n\n")
                       ELSE "No jobs found. Try: 'python developer' or 'backend engineer'",
                       f, <<>>, found.calls)
         IN listed(search_jobs_of[user_input, up])

\* chat_greeting ending the STAR turn it interrupts.
chat_greeting_resetting(f, now) ==
    Reply("", GREETING_REPLY, set_star_mode(f, "default", FALSE, now), <<>>, <<>>)

\* Branch 1: greetings.
chat_greeting(f, now) == Reply("", GREETING_REPLY, f, <<>>, <<>>)

\* The body of the branch taken, on the file f as the first add_to_history left it.
chat_reply(branch, f, user_input, resume_uploaded, resume_text, now, o, up) ==
    IF branch = "greeting" THEN chat_greeting(f, now)
    ELSE IF branch = "star_story"
    THEN LET asked == build_star_story(user_input, o)
         IN Reply("", asked.response, set_star_mode(f, "default", FALSE, now),
                  asked.llm, <<>>)
    ELSE IF branch = "star_activate"
    THEN Reply("", STAR_INSTRUCTIONS, set_star_mode(f, "default", TRUE, now), <<>>, <<>>)
    ELSE IF branch = "resume"
    THEN chat_resume(f, user_input, resume_uploaded, resume_text, now, o, up)
    ELSE IF branch = "jobs"
    THEN chat_jobs(f, user_input, resume_uploaded, resume_text, up)
    ELSE LET asked == query_llm(Prompt("verbatim", user_input, "", ""), o)
         IN Reply("", asked.response, f, asked.llm, <<>>)

NoCall ==
    [op |-> "none", fn |-> "", user_input |-> "", text |-> "", star_mode |-> FALSE,
     resume_uploaded |-> FALSE, branch |-> "", sub |-> "", response |-> "",
     llm |-> <<>>, jobs |-> <<>>, raised |-> FALSE, saved |-> <<>>, loaded |-> <<>>,
     result |-> <<>>, outcome |-> <<>>]

\* POST /api/chat
chat_endpoint(user_input, o, up) ==
    /\ app = "backend"
    /\ \E now \in {clock} :
       \E f1 \in {add_to_history(file, "default", user_input, "", now)} :
       \E resume_uploaded \in {is_resume_uploaded(f1, "default", now)} :
       \E resume_text \in {get_resume_text(f1, "default", now)} :
       \E star_mode \in {is_star_mode(f1, "default", now)} :
       \E text \in {text_of[user_input]} :
       \E branch \in {chat_branch_of[user_input, star_mode]} :
       \E r \in {chat_reply(branch, f1, user_input, resume_uploaded, resume_text,
                            now, o, up)} :
       /\ file' = add_to_history(r.file, "default", user_input, r.response, now)
       /\ chats' = chats + 1
       /\ last' = [NoCall EXCEPT !.op = "chat_endpoint", !.user_input = user_input,
                                 !.text = text, !.star_mode = star_mode,
                                 !.resume_uploaded = resume_uploaded,
                                 !.branch = branch, !.sub = r.sub,
                                 !.response = r.response, !.llm = r.llm,
                                 !.jobs = r.jobs,
                                 !.outcome = IF r.llm = <<>> THEN <<>> ELSE <<o>>]
       /\ histLog' = histLog \o new_history(user_input, "", now)
                             \o new_history(user_input, r.response, now)
       /\ pairLog' = pairLog \o new_pairs(user_input, r.response, now)
       /\ UNCHANGED <<app, clock, procs>>

\* POST /api/upload-resume
upload_resume(u) ==
    LET now == clock
        resume_text == extract_text_of[u]
        rejected == upload_rejected_of[u]
    IN /\ app = "backend"
       /\ file' = IF rejected THEN file
                  ELSE set_resume(file, "default", resume_text, u.filename, now)
       /\ last' = [NoCall EXCEPT !.op = "upload_resume", !.user_input = u.filename,
                                 !.response = resume_text, !.raised = rejected]
       /\ UNCHANGED <<app, clock, chats, histLog, pairLog, procs>>

\* POST /api/clear-resume
clear_resume_endpoint ==
    /\ app = "backend"
    /\ file' = clear_resume(file, "default", clock)
    /\ last' = [NoCall EXCEPT !.op = "clear_resume"]
    /\ UNCHANGED <<app, clock, chats, histLog, pairLog, procs>>

\* POST /api/clear-memory
clear_memory_endpoint ==
    /\ app = "backend"
    /\ file' = clear_memory(file, "default", clock)
    /\ last' = [NoCall EXCEPT !.op = "clear_memory"]
    /\ histLog' = <<>>
    /\ pairLog' = <<>>
    /\ UNCHANGED <<app, clock, chats, procs>>

\* The record the analytics layer's load_memory() returns in this deployment.
analytics_memory ==
    IF app = "backend" THEN load_memory(file, "default", clock)
    ELSE root_load_memory(file, "default")

\* A call of an analytics function fn from its handler: the endpoint of the
\* backend (whose guard may refuse the request before fn runs) or the button
\* handler of the Gradio application.  Neither writes the store.
analytics_call(op, fn, refused, r, raised) ==
    /\ last' = IF refused
               THEN [NoCall EXCEPT !.op = op, !.raised = TRUE]
               ELSE [NoCall EXCEPT !.op = op, !.fn = fn, !.response = r.response,
                                   !.llm = r.llm, !.raised = raised,
                                   !.result = IF "answer" \in DOMAIN r
                                              THEN <<r.answer>> ELSE <<>>]
    /\ UNCHANGED <<app, file, clock, chats, histLog, pairLog, procs>>

\* POST /api/analyze-match; match_percentage_handler
analyze_match(job_description, o) ==
    analytics_call("analyze_match", "calculate_resume_job_match",
                   app = "backend" /\ blank_of[job_description],
                   calculate_resume_job_match(analytics_memory, job_description, o),
                   FALSE)

\* POST /api/skill-gaps; skill_gap_handler
skill_gaps(job_description, o) ==
    analytics_call("skill_gaps", "detect_skill_gaps",
                   app = "backend" /\ blank_of[job_description],
                   detect_skill_gaps(analytics_memory, job_description, o),
                   FALSE)

\* GET /api/alternative-roles; reverse_match_handler
alternative_roles(o) ==
    analytics_call("alternative_roles", "reverse_job_matcher",
                   app = "backend" /\ ~is_resume_uploaded(file, "default", clock),
                   reverse_job_matcher(analytics_memory, o),
                   FALSE)

\* POST /api/heatmap; heatmap_handler
heatmap(job_description, o) ==
    \E r \in {resume_heatmap(analytics_memory, job_description, o)} :
        analytics_call("heatmap", "resume_heatmap",
                       app = "backend" /\ blank_of[job_description],
                       r, r.raised)

(***************************************************************************)
(* app.py and resume.py: the handlers of the Gradio application.           *)
(***************************************************************************)
ROOT_GREETINGS == {"hi", "hello", "hey"}
ROOT_JOB_KEYWORDS == {"job", "jobs", "internship", "intern"}
ROOT_GREETING_REPLY == "Hello [wave] How can I help you with your career today?"
ROOT_STAR_INSTRUCTIONS ==
    "Great [thumbs up]\n\nPlease describe your experience or project in your own words.\nI'll convert it into a STAR interview answer."
ROOT_DEFAULT_ROLE == "Backend Engineer"

\* agent_controller testing the job keywords before the two templates.
agent_branch_jobs_first(text, star_mode) ==
    IF text \in ROOT_GREETINGS THEN "greeting"
    ELSE IF star_mode THEN "star_story"
    ELSE IF Contains(text, "star") \/ Contains(text, "behavioral") THEN "star_activate"
    ELSE IF ContainsAny(text, ROOT_JOB_KEYWORDS) THEN "jobs"
    ELSE IF Contains(text, "improve") /\ Contains(text, "resume") THEN "improve"
    ELSE IF Contains(text, "interview") /\ Contains(text, "question") THEN "interview"
    ELSE "default"

\* The if/elif chain of agent_controller.
agent_branch(text, star_mode) ==
    IF text \in ROOT_GREETINGS THEN "greeting"
    ELSE IF star_mode THEN "star_story"
    ELSE IF Contains(text, "star") \/ Contains(text, "behavioral") THEN "star_activate"
    ELSE IF Contains(text, "improve") /\ Contains(text, "resume") THEN "improve"
    ELSE IF Contains(text, "interview") /\ Contains(text, "question") THEN "interview"
    ELSE IF ContainsAny(text, ROOT_JOB_KEYWORDS) THEN "jobs"
    ELSE "default"

agent_branch_of ==
    [m \in Messages, star_mode \in BOOLEAN |-> agent_branch(text_of[m], star_mode)]

RECURSIVE bullet_list(_)
bullet_list(jobs) ==
    IF Len(jobs) = 0 THEN <<>> ELSE <<"- " \o jobs[1]>> \o bullet_list(Tail(jobs))

\* The body of the branch taken: [response, file, memory, llm, jobs, raised], with
\* the saves the branch itself makes.
agent_reply(branch, f, memory, user_input, o, up) ==
    IF branch = "greeting"
    THEN [response |-> ROOT_GREETING_REPLY, file |-> f, memory |-> memory,
          llm |-> <<>>, jobs |-> <<>>, raised |-> FALSE]
    ELSE IF branch = "star_story"
    THEN LET asked == build_star_story(user_input, o)
             m == Put(memory, "star_mode", FALSE)
         IN [response |-> asked.response, file |-> root_save_memory(f, "default", m),
             memory |-> m, llm |-> asked.llm, jobs |-> <<>>, raised |-> FALSE]
    ELSE IF branch = "star_activate"
    THEN LET m == Put(memory, "star_mode", TRUE)
         IN [response |-> ROOT_STAR_INSTRUCTIONS,
             file |-> root_save_memory(f, "default", m), memory |-> m,
             llm |-> <<>>, jobs |-> <<>>, raised |-> FALSE]
    ELSE IF branch = "improve"
    THEN LET asked == analyze_resume_for_role(root_load_memory(f, "default"),
                                              ROOT_DEFAULT_ROLE, o)
         IN [response |-> asked.response, file |-> f, memory |-> memory,
             llm |-> asked.llm, jobs |-> <<>>, raised |-> FALSE]
    ELSE IF branch = "interview"
    THEN LET asked == query_llm(Prompt("interview_questions", user_input, "", ""), o)
         IN [response |-> asked.response, file |-> f, memory |-> memory,
             llm |-> asked.llm, jobs |-> <<>>, raised |-> FALSE]
    ELSE IF branch = "jobs"
    THEN LET found == root_search_jobs(user_input, up)
         IN [response |-> IF Len(found.jobs) > 0
                          THEN "[search] **Top matching opportunities:**\n\n"
                               \o Join(bullet_list(found.jobs), "\n")
                          ELSE "[warning] No matching jobs found.",
             file |-> f, memory |-> memory, llm |-> <<>>, jobs |-> found.calls,
             raised |-> found.raised]
    ELSE LET asked == query_llm(Prompt("verbatim", user_input, "", ""), o)
         IN [response |-> asked.response, file |-> f, memory |-> memory,
             llm |-> asked.llm, jobs |-> <<>>, raised |-> FALSE]

root_entry(user_input, now) == [time |-> now, user |-> user_input]

\* agent_controller(user_input, chat_history)
agent_controller(user_input, o, up) ==
    /\ app = "gradio"
    /\ \E now \in {clock} :
       \E loaded \in {root_load_memory(file, "default")} :
       \E star_mode \in {Get(loaded, "star_mode", FALSE)} :
       \E memory \in {Put(loaded, "history",
                          Get(loaded, "history", <<>>)
                              \o <<root_entry(user_input, now)>>)} :
       \E text \in {text_of[user_input]} :
       \E branch \in {agent_branch_of[user_input, star_mode]} :
       \E r \in {agent_reply(branch, file, memory, user_input, o, up)} :
       /\ file' = IF r.raised THEN r.file
                  ELSE root_save_memory(r.file, "default",
                                        Put(r.memory, "last_response", r.response))
       /\ chats' = chats + 1
       /\ last' = [NoCall EXCEPT !.op = "agent_controller", !.user_input = user_input,
                                 !.text = text, !.star_mode = star_mode,
                                 !.resume_uploaded = Get(loaded, "resume_uploaded", FALSE),
                                 !.branch = branch,
                                 !.response = IF r.raised THEN "" ELSE r.response,
                                 !.llm = r.llm, !.jobs = r.jobs, !.raised = r.raised,
                                 !.outcome = IF r.llm = <<>> THEN <<>> ELSE <<o>>]
       /\ histLog' = IF r.raised THEN histLog
                     ELSE histLog \o <<root_entry(user_input, now)>>
       /\ UNCHANGED <<app, clock, pairLog, procs>>

\* pdfplumber.open(file_path) on a file that is not a readable PDF
pdf_open_raises_of == [u \in Uploads |-> u.fails \/ ~EndsWith(Lower(u.filename), ".pdf")]

\* text = "\n".join(page.extract_text() or "" ...); text[:3000]
analyze_resume_text_of == [u \in Uploads |-> Take(Join(u.pages, "\n"), RESUME_TEXT_CHARS)]

\* resume_handler(file_path) with a file chosen: analyze_resume(file_path).
\* pdfplumber.open raises on a file that is not a readable PDF.
resume_handler(u, o) ==
    LET raises == pdf_open_raises_of[u]
        resume_text == analyze_resume_text_of[u]
        asked == query_llm(Prompt("analyze_resume", resume_text, "", ""), o)
        memory == root_load_memory(file, "default")
    IN /\ app = "gradio"
       /\ file' = IF raises THEN file
                  ELSE root_save_memory(file, "default",
                                        Put(Put(memory, "resume_text", resume_text),
                                            "resume_uploaded", TRUE))
       /\ last' = IF raises
                  THEN [NoCall EXCEPT !.op = "resume_handler", !.user_input = u.filename,
                                      !.raised = TRUE]
                  ELSE [NoCall EXCEPT !.op = "resume_handler", !.user_input = u.filename,
                                      !.response = asked.response, !.llm = asked.llm]
       /\ UNCHANGED <<app, clock, chats, histLog, pairLog, procs>>

(***************************************************************************)
(* A client of the Session Store: it loads a user's record, sets a field   *)
(* and saves the record; later it loads the record again.  last.saved is   *)
(* the record handed to save_memory by the call before, if that call saved *)
(* the same user's record.                                                 *)
(***************************************************************************)
store_load(user_id) ==
    IF app = "backend" THEN load_memory(file, user_id, clock)
    ELSE root_load_memory(file, user_id)

store_save(user_id, memory) ==
    IF app = "backend" THEN save_memory(file, user_id, memory, clock)
    ELSE root_save_memory(file, user_id, memory)

store_raises == app = "gradio" /\ root_json_raises(file)

save_record(user_id, e) ==
    IF store_raises
    THEN /\ last' = [NoCall EXCEPT !.op = "save_memory", !.user_input = user_id,
                                   !.raised = TRUE]
         /\ UNCHANGED <<app, file, clock, chats, histLog, pairLog, procs>>
    ELSE \E memory \in {Put(store_load(user_id), e.key, e.value)} :
            /\ file' = store_save(user_id, memory)
            /\ last' = [NoCall EXCEPT !.op = "save_memory",
                                      !.user_input = user_id,
                                      !.saved = <<memory>>]
            /\ UNCHANGED <<app, clock, chats, histLog, pairLog, procs>>

load_record(user_id) ==
    /\ last' = IF store_raises
               THEN [NoCall EXCEPT !.op = "load_memory", !.user_input = user_id,
                                   !.raised = TRUE]
               ELSE [NoCall EXCEPT !.op = "load_memory", !.user_input = user_id,
                                   !.saved = IF last.op = "save_memory"
                                                /\ last.user_input = user_id
                                             THEN last.saved ELSE <<>>,
                                   !.loaded = <<store_load(user_id)>>]
    /\ UNCHANGED <<app, file, clock, chats, histLog, pairLog, procs>>

\* The file is overwritten from outside with bytes that are not JSON.
Corrupt ==
    /\ file.status # "corrupt"
    /\ file' = [status |-> "corrupt", data |-> EmptyDict]
    /\ last' = [NoCall EXCEPT !.op = "corrupt"]
    /\ UNCHANGED <<app, clock, chats, histLog, pairLog, procs>>

(***************************************************************************)
(* The job search called on its own: LinkedInJobs.get_jobs of the backend  *)
(* and search_jobs of the Gradio application.  last.result is the upstream *)
(* outcome with the listings returned; requests.get is inside a try block  *)
(* in get_jobs only.                                                       *)
(***************************************************************************)
JobSearch ==
    \E query \in JobQueries :
        \/ \E up \in JobUpstreams :
              /\ app = "backend"
              /\ last' = [NoCall EXCEPT
                              !.op = "get_jobs", !.user_input = query,
                              !.result = <<[up |-> up,
                                            jobs |-> get_jobs(query, JOB_LIMIT, up)]>>]
              /\ UNCHANGED <<app, file, clock, chats, histLog, pairLog, procs>>
        \/ \E up \in RootJobUpstreams :
              /\ app = "gradio"
              /\ \E found \in {root_search_jobs(query, up)} :
                    last' = [NoCall EXCEPT
                                !.op = "root_search_jobs", !.user_input = query,
                                !.jobs = found.calls, !.raised = found.raised,
                                !.result = <<[up |-> up, jobs |-> found.jobs]>>]
              /\ UNCHANGED <<app, file, clock, chats, histLog, pairLog, procs>>

\* One line of the Gateway's answer going through the body of the loop of
\* resume_heatmap: last.result is the score computed, last.response the row.
HeatRow ==
    \E score_text \in ScoreTexts :
        \E line \in {"Skills | " \o score_text \o " | ok"} :
            /\ heat_line_is_row(line)
            /\ last' = [NoCall EXCEPT
                            !.op = "heat_row", !.user_input = score_text,
                            !.response = heat_row(line),
                            !.result = <<heat_score(heat_parts(line)[2])>>]
            /\ UNCHANGED <<app, file, clock, chats, histLog, pairLog, procs>>

\* search_jobs_by_skills called on its own, as branches 4 and 5 call it:
\* last.jobs holds the query it sent to search_jobs.
SkillsSearch ==
    \E resume_text \in SkillResumes, up \in Upstreams :
        /\ app = "backend"
        /\ \E found \in {search_jobs_by_skills(resume_text, DEFAULT_ROLE, up)} :
               last' = [NoCall EXCEPT !.op = "search_jobs_by_skills",
                                      !.user_input = resume_text,
                                      !.jobs = found.calls,
                                      !.result = <<found.jobs>>]
        /\ UNCHANGED <<app, file, clock, chats, histLog, pairLog, procs>>

\* The write functions of the store, each called for a user with the clock
\* read at the call; time passes between two calls.
StoreWrites ==
    {"save_memory", "add_to_history", "set_resume", "clear_resume", "set_star_mode",
     "update_interview_progress", "clear_memory"}

store_written(fn, f, user_id, now) ==
    CASE fn = "save_memory" ->
             save_memory(f, user_id,
                         Put(load_memory(f, user_id, now), "last_response",
                             "Here is some career advice."), now)
      [] fn = "add_to_history" ->
             add_to_history(f, user_id, "find me a job", "Here is some career advice.",
                            now)
      [] fn = "set_resume" -> set_resume(f, user_id, "Python developer", "cv.pdf", now)
      [] fn = "clear_resume" -> clear_resume(f, user_id, now)
      [] fn = "set_star_mode" -> set_star_mode(f, user_id, TRUE, now)
      [] fn = "update_interview_progress" ->
             update_interview_progress(f, user_id, <<"I led a team that shipped X">>,
                                       now)
      [] fn = "clear_memory" -> clear_memory(f, user_id, now)

store_write ==
    \E user_id \in Users, fn \in StoreWrites :
        /\ app = "backend"
        /\ clock < MaxStoreWrites
        /\ file' = store_written(fn, file, user_id, clock)
        /\ clock' = clock + 1
        /\ last' = [NoCall EXCEPT !.op = "store_write", !.fn = fn,
                                  !.user_input = user_id]
        /\ UNCHANGED <<app, chats, histLog, pairLog, procs>>

(***************************************************************************)
(* Two callers of add_to_history at once, each for a user of its choice.   *)
(* A call reads the file in load_memory, reads it again at the start of    *)
(* save_memory and writes it at the end of save_memory; nothing keeps the  *)
(* other caller out between these steps.  procs[p] is the caller's         *)
(* position with the record it built and the file contents save_memory     *)
(* read.                                                                   *)
(***************************************************************************)
Writers == 1..MaxWriters

writer_message(p) == "message " \o ToString(p)

IdleWriter ==
    [pc |-> "idle", user_id |-> "", memory |-> EmptyDict, all_memory |-> MissingFile,
     overlapped |-> FALSE]

\* Another caller is between its load and its write.
OtherWriting(p) == \E q \in Writers \ {p} : procs[q].pc \in {"loaded", "read"}

\* memory = load_memory(user_id), and the entries appended to it.
writer_load(p) ==
    \E user_id \in Users :
        /\ procs[p].pc = "idle"
        /\ procs' = [procs EXCEPT
                        ![p] = [pc |-> "loaded", user_id |-> user_id,
                                memory |-> add_to_history(file, user_id,
                                                          writer_message(p), "",
                                                          clock).data[user_id],
                                all_memory |-> MissingFile,
                                overlapped |-> OtherWriting(p)]]
        /\ UNCHANGED <<app, file, clock, chats, last, histLog, pairLog>>

\* save_memory: all_memory = json.load(f)
writer_read(p) ==
    /\ procs[p].pc = "loaded"
    /\ procs' = [procs EXCEPT ![p].pc = "read", ![p].all_memory = file,
                              ![p].overlapped = @ \/ OtherWriting(p)]
    /\ UNCHANGED <<app, file, clock, chats, last, histLog, pairLog>>

\* save_memory: all_memory[user_id] = memory; json.dump(all_memory, f)
writer_write(p) ==
    /\ procs[p].pc = "read"
    /\ file' = save_memory(procs[p].all_memory, procs[p].user_id,
                           procs[p].memory, clock)
    /\ procs' = [procs EXCEPT ![p].pc = "done",
                              ![p].overlapped = @ \/ OtherWriting(p)]
    /\ last' = [NoCall EXCEPT !.op = "add_to_history",
                              !.user_input = writer_message(p)]
    /\ UNCHANGED <<app, clock, chats, histLog, pairLog>>

(***************************************************************************)
(* Two calls of chat_endpoint at once for the user "default", after one    *)
(* call that activated STAR mode.  The steps of a call are the loads and   *)
(* the saves of the store functions it calls, in the order of the handler: *)
(* add_to_history (load, save), is_resume_uploaded, get_resume_text,       *)
(* is_star_mode (a load each), set_star_mode in branches 2 and 3 (load,    *)
(* save), add_to_history (load, save).  The Gateway call of a branch is    *)
(* made between two of these steps and touches no store.  procs[p] holds   *)
(* the locals of the call and the record its pending save will write.      *)
(***************************************************************************)
Callers == 1..MaxCallers

ActivationMessage == "I want to practice a behavioral question"

RaceMessages == {"I led a team that shipped X", ActivationMessage}

IdleCaller ==
    [pc |-> "start", user_input |-> "", memory |-> EmptyDict, star_mode |-> FALSE,
     branch |-> "", response |-> ""]

\* The call moves on with some of its locals set.
caller_step(p, pc, changed) ==
    procs' = [procs EXCEPT ![p] = [pc |-> pc] @@ changed @@ procs[p]]

\* add_to_history("default", user_input): memory = load_memory(user_id)
caller_history_load(p) ==
    \E user_input \in RaceMessages :
        /\ chats = 1
        /\ procs[p].pc = "start"
        /\ caller_step(p, "history_loaded",
                       [user_input |-> user_input,
                        memory |-> add_to_history(file, "default", user_input, "",
                                                  clock).data["default"]])
        /\ UNCHANGED <<app, file, clock, chats, last, histLog, pairLog>>

\* save_memory(user_id, memory), for each of the three saves of a call
caller_save(p, from, to) ==
    /\ procs[p].pc = from
    /\ file' = save_memory(file, "default", procs[p].memory, clock)
    /\ caller_step(p, to, [memory |-> EmptyDict])
    /\ last' = [NoCall EXCEPT !.op = "caller_save", !.user_input = procs[p].user_input,
                              !.branch = procs[p].branch]
    /\ UNCHANGED <<app, clock, chats, histLog, pairLog>>

\* resume_uploaded = is_resume_uploaded(); resume_text = get_resume_text()
caller_resume_load(p, from, to) ==
    /\ procs[p].pc = from
    /\ caller_step(p, to, <<>>)
    /\ UNCHANGED <<app, file, clock, chats, last, histLog, pairLog>>

\* star_mode = is_star_mode(), and the if/elif chain on it
caller_star_load(p) ==
    /\ procs[p].pc = "text_read"
    /\ \E star_mode \in {is_star_mode(file, "default", clock)} :
          caller_step(p, "routed",
                      [star_mode |-> star_mode,
                       branch |-> chat_branch_of[procs[p].user_input, star_mode]])
    /\ UNCHANGED <<app, file, clock, chats, last, histLog, pairLog>>

\* set_star_mode("default", enabled): memory = load_memory(user_id)
caller_set_load(p) ==
    /\ procs[p].pc = "routed"
    /\ procs[p].branch \in {"star_story", "star_activate"}
    /\ caller_step(p, "set_loaded",
                   [memory |-> set_star_mode(file, "default",
                                             procs[p].branch = "star_activate",
                                             clock).data["default"]])
    /\ UNCHANGED <<app, file, clock, chats, last, histLog, pairLog>>

\* add_to_history("default", user_input, response): memory = load_memory(user_id),
\* after the Gateway call of the branch
caller_reply_load(p) ==
    \E o \in LlmOutcomes, up \in Upstreams :
        /\ \/ procs[p].pc = "set_saved"
           \/ procs[p].pc = "routed"
                 /\ procs[p].branch \notin {"star_story", "star_activate"}
        /\ \E response \in {chat_reply(procs[p].branch, file, procs[p].user_input,
                                        FALSE, "", clock, o, up).response} :
              caller_step(p, "reply_loaded",
                          [response |-> response,
                           memory |-> add_to_history(file, "default",
                                                     procs[p].user_input, response,
                                                     clock).data["default"]])
        /\ UNCHANGED <<app, file, clock, chats, last, histLog, pairLog>>

caller(p) ==
    \/ caller_history_load(p)
    \/ caller_save(p, "history_loaded", "history_saved")
    \/ caller_resume_load(p, "history_saved", "uploaded_read")
    \/ caller_resume_load(p, "uploaded_read", "text_read")
    \/ caller_star_load(p)
    \/ caller_set_load(p)
    \/ caller_save(p, "set_loaded", "set_saved")
    \/ caller_reply_load(p)
    \/ caller_save(p, "reply_loaded", "done")

(***************************************************************************)
(* The specifications.                                                     *)
(***************************************************************************)
Init ==
    /\ app \in {"backend", "gradio"}
    /\ file = MissingFile
    /\ clock = 0
    /\ chats = 0
    /\ last = NoCall
    /\ histLog = <<>>
    /\ pairLog = <<>>
    /\ procs = <<>>

\* Time passes between two calls.
Tick ==
    /\ clock' = clock + 1
    /\ UNCHANGED <<app, file, chats, last, histLog, pairLog, procs>>

\* A message reaches the router of the deployment.
Chat(messages) ==
    \E m \in messages, o \in LlmOutcomes :
        \/ \E up \in Upstreams : chat_endpoint(m, o, up)
        \/ \E up \in RootUpstreams : agent_controller(m, o, up)

Upload ==
    \E u \in Uploads :
        \/ upload_resume(u)
        \/ \E o \in LlmOutcomes : resume_handler(u, o)

Clear == clear_resume_endpoint \/ clear_memory_endpoint

Analytics ==
    \/ \E o \in LlmOutcomes, jd \in JobDescriptions : analyze_match(jd, o)
    \/ \E o \in LlmOutcomes, jd \in JobDescriptions : skill_gaps(jd, o)
    \/ \E o \in LlmOutcomes : alternative_roles(o)
    \/ \E o \in HeatmapOutcomes, jd \in JobDescriptions : heatmap(jd, o)

Store ==
    \/ \E user_id \in Users, e \in Edits : save_record(user_id, e)
    \/ \E user_id \in Users : load_record(user_id)

\* The router with the resume uploads and the clears, at one clock reading.
Next ==
    \/ chats < MaxChats /\ Chat(RouterMessages)
    \/ Upload
    \/ Clear

Spec == Init /\ [][Next]_vars

\* The resume questions of the router and the analytics functions.
NextResume ==
    \/ chats < MaxResumeChats /\ Chat(ResumeMessages)
    \/ Upload
    \/ Clear
    \/ Analytics

SpecResume == Init /\ [][NextResume]_vars

\* One long conversation, the clock advancing after every message.
NextCap ==
    \/ chats < MaxCapCalls /\ clock = chats /\ Chat(CapMessages)
    \/ clock < chats /\ Tick

SpecCap == Init /\ [][NextCap]_vars

\* The clients of the store, the clock advancing between their calls.
NextStore ==
    \/ Store
    \/ Corrupt
    \/ clock < MaxClock /\ Tick

SpecStore == Init /\ [][NextStore]_vars

\* The router on the messages below the resume markers, with the uploads.
NextRoute ==
    \/ chats < MaxRouteChats /\ Chat(RouteMessages)
    \/ Upload

SpecRoute == Init /\ [][NextRoute]_vars

\* The callers of add_to_history, their steps in any order.
InitWriters ==
    /\ app = "backend"
    /\ file = MissingFile
    /\ clock = 0
    /\ chats = 0
    /\ last = NoCall
    /\ histLog = <<>>
    /\ pairLog = <<>>
    /\ procs = [p \in Writers |-> IdleWriter]

NextWriters == \E p \in Writers : writer_load(p) \/ writer_read(p) \/ writer_write(p)

SpecWriters == InitWriters /\ [][NextWriters]_vars

\* One call that activates STAR mode, then the two calls at once.
InitCallers ==
    /\ app = "backend"
    /\ file = MissingFile
    /\ clock = 0
    /\ chats = 0
    /\ last = NoCall
    /\ histLog = <<>>
    /\ pairLog = <<>>
    /\ procs = [p \in Callers |-> IdleCaller]

NextCallers ==
    \/ chats = 0 /\ \E o \in LlmOutcomes, up \in Upstreams :
                        chat_endpoint(ActivationMessage, o, up)
    \/ \E p \in Callers : caller(p)

SpecCallers == InitCallers /\ [][NextCallers]_vars

\* One caller of the store at a time: its writes and its loads.
NextFrame ==
    \/ store_write
    \/ \E user_id \in Users : load_record(user_id)

SpecFrame == Init /\ [][NextFrame]_vars

\* The job search and the heatmap's row rendering, each called on its own.
NextFunctions ==
    \/ JobSearch
    \/ HeatRow
    \/ SkillsSearch

SpecFunctions == Init /\ [][NextFunctions]_vars

(***************************************************************************)
(* The session of the user "default" as the file holds it, a field absent  *)
(* from the record read as the default the loaders give it.                *)
(***************************************************************************)
Session ==
    IF file.status = "ok" /\ "default" \in DOMAIN file.data THEN file.data["default"]
    ELSE EmptyDict

StarMode == Get(Session, "star_mode", FALSE)
ResumeText == Get(Session, "resume_text", "")
ResumeUploaded == Get(Session, "resume_uploaded", FALSE)
ResumeFileName == Get(Session, "resume_file", "")
LastResponse == Get(Session, "last_response", "")
ConversationPairs == Get(Session, "conversation_pairs", <<>>)
InterviewProgress == Get(Session, "interview", interview_default)
History == Get(Session, "history", <<>>)

IsRouterCall == last.op \in {"chat_endpoint", "agent_controller"}

\* The words the router's predicates look for in the trimmed, lowercased text.
Keywords ==
    {"star", "behavioral", "interview story", "based on my resume", "from my resume",
     "my resume", "according to my resume", "job", "jobs", "internship", "intern",
     "position", "opening", "vacancy", "improve", "resume", "interview", "question"}

Mentions == [m \in Messages |-> {k \in Keywords : Contains(Strip(Lower(m)), k)}]

GreetingMessages == [a \in {"backend", "gradio"} |->
                        {m \in Messages :
                            Strip(Lower(m)) \in (IF a = "backend"
                                                 THEN {"hi", "hello", "hey", "greetings"}
                                                 ELSE {"hi", "hello", "hey"})}]

Greets(m) == m \in GreetingMessages[app]

FixedGreeting == IF app = "backend" THEN GREETING_REPLY ELSE ROOT_GREETING_REPLY
FixedInstructions == IF app = "backend" THEN STAR_INSTRUCTIONS ELSE ROOT_STAR_INSTRUCTIONS

\* The call went to the Gateway once, with the template and the message given.
Asked(l, template) ==
    /\ Len(l.llm) = 1
    /\ l.llm[1].user_prompt.template = template

AskedStar(l) == Asked(l, "star_story") /\ l.llm[1].user_prompt.a = l.user_input

NoCalls(l) == l.llm = <<>> /\ l.jobs = <<>>

(***************************************************************************)
(* C1.  In chat_endpoint exactly one branch runs, the first whose          *)
(* predicate holds in the order greeting, STAR continuation, STAR          *)
(* activation, resume marker, job keyword, default Gateway query; the      *)
(* predicates are substring tests on the trimmed, lowercased message, the  *)
(* greeting an exact match.                                                *)
(***************************************************************************)
C1_FirstMatch(m, star_mode) ==
    IF Greets(m) THEN "greeting"
    ELSE IF star_mode THEN "star_story"
    ELSE IF Mentions[m] \cap {"star", "behavioral", "interview story"} # {}
    THEN "star_activate"
    ELSE IF Mentions[m] \cap {"based on my resume", "from my resume", "my resume",
                              "according to my resume"} # {}
    THEN "resume"
    ELSE IF Mentions[m] \cap {"job", "jobs", "internship", "intern", "position",
                              "opening", "vacancy"} # {}
    THEN "jobs"
    ELSE "default"

\* What the body of each branch leaves in the reply and in the calls made.
C1_BodyRan(l) ==
    {b \in {"greeting", "star_story", "star_activate", "resume", "jobs", "default"} :
        \/ b = "greeting" /\ l.response = GREETING_REPLY /\ NoCalls(l)
        \/ b = "star_story" /\ AskedStar(l)
        \/ b = "star_activate" /\ l.response = STAR_INSTRUCTIONS /\ NoCalls(l)
        \/ b = "resume" /\ l.sub \in {"notice", "jobs", "improve", "interview", "question"}
        \/ b = "jobs" /\ l.sub \in {"personal", "general"} /\ Len(l.jobs) = 1
        \/ b = "default" /\ Asked(l, "verbatim") /\ l.sub = ""}

C1_BranchOrder ==
    last.op = "chat_endpoint" =>
        C1_BodyRan(last) = {C1_FirstMatch(last.user_input, last.star_mode)}

\* A message with a resume marker and a job keyword took the resume branch.
C1_Witness ==
    /\ last.op = "chat_endpoint"
    /\ "my resume" \in Mentions[last.user_input]
    /\ "job" \in Mentions[last.user_input]
    /\ C1_BodyRan(last) = {"resume"}

(***************************************************************************)
(* C2.  As stated: a router call that starts with starMode true sends the  *)
(* message to the Gateway under the STAR template and leaves starMode      *)
(* false, whatever the message.                                            *)
(***************************************************************************)
C2_AnyMessageConsumed ==
    (IsRouterCall /\ last.star_mode) => (AskedStar(last) /\ ~StarMode)

(***************************************************************************)
(* C2, amended.  A router call that starts with starMode true and whose    *)
(* message is not an exact greeting sends the message under the STAR       *)
(* template and leaves starMode false; an exact greeting gets the greeting *)
(* reply, no Gateway call, and starMode stays true.                        *)
(***************************************************************************)
C2_NonGreetingConsumed ==
    (IsRouterCall /\ last.star_mode) =>
        IF Greets(last.user_input)
        THEN last.response = FixedGreeting /\ NoCalls(last) /\ StarMode
        ELSE AskedStar(last) /\ ~StarMode

\* A message with a job keyword was consumed as the story.
C2_Witness ==
    /\ IsRouterCall
    /\ last.star_mode
    /\ "job" \in Mentions[last.user_input]
    /\ AskedStar(last)
    /\ ~StarMode

(***************************************************************************)
(* C3.  A router call that starts with starMode false on a non-greeting    *)
(* message containing "star" or "behavioral" sets starMode, returns the    *)
(* fixed instructions and calls neither the Gateway nor the job search;    *)
(* the router call right after it, on a non-greeting message, sends that   *)
(* message under the STAR template and leaves starMode false.              *)
(***************************************************************************)
C3_Activates ==
    /\ ~StarMode
    /\ ~Greets(last'.user_input)
    /\ Mentions[last'.user_input] \cap {"star", "behavioral"} # {}

C3_Follows ==
    /\ IsRouterCall
    /\ last.response = FixedInstructions
    /\ StarMode
    /\ ~Greets(last'.user_input)

C3_TwoTurns ==
    [][chats' = chats + 1 =>
          /\ C3_Activates => (StarMode' /\ last'.response = FixedInstructions
                              /\ NoCalls(last'))
          /\ C3_Follows => (AskedStar(last') /\ ~StarMode')]_vars

\* The story sent right after the activation was answered under the template.
C3_Witness ==
    /\ IsRouterCall
    /\ last.star_mode
    /\ last.user_input = "I led a team that shipped X"
    /\ AskedStar(last)
    /\ ~StarMode
    /\ \E i \in 1..Len(History) :
          "assistant" \in DOMAIN History[i] /\ History[i].assistant = FixedInstructions

(***************************************************************************)
(* C4.  A message whose trimmed, lowercased text is in the greeting set    *)
(* gets the fixed greeting reply, in every session state, without a        *)
(* Gateway call and without a job search.                                  *)
(***************************************************************************)
C4_GreetingFixed ==
    (IsRouterCall /\ Greets(last.user_input)) =>
        (last.response = FixedGreeting /\ NoCalls(last))

\* A greeting in mixed case and with white space around it, sent in STAR mode.
C4_Witness ==
    /\ IsRouterCall
    /\ last.user_input = " Hello\n"
    /\ last.star_mode
    /\ last.response = FixedGreeting

(***************************************************************************)
(* C5.  As stated: a router call that takes the greeting branch leaves     *)
(* starMode, resumeText, resumeUploaded, resumeFileName, lastResponse,     *)
(* conversationPairs and interviewProgress as they were.                   *)
(***************************************************************************)
C5_GreetingStep == chats' = chats + 1 /\ Greets(last'.user_input)

C5_OnlyHistoryChanges ==
    [][C5_GreetingStep =>
          /\ StarMode' = StarMode
          /\ ResumeText' = ResumeText
          /\ ResumeUploaded' = ResumeUploaded
          /\ ResumeFileName' = ResumeFileName
          /\ LastResponse' = LastResponse
          /\ ConversationPairs' = ConversationPairs
          /\ InterviewProgress' = InterviewProgress]_vars

(***************************************************************************)
(* C5, amended.  A router call that takes the greeting branch leaves       *)
(* starMode, resumeText, resumeUploaded, resumeFileName and                *)
(* interviewProgress as they were, appends to history and stores the       *)
(* greeting reply as lastResponse.                                         *)
(***************************************************************************)
C5_ResumeAndStarKept ==
    [][C5_GreetingStep =>
          /\ StarMode' = StarMode
          /\ ResumeText' = ResumeText
          /\ ResumeUploaded' = ResumeUploaded
          /\ ResumeFileName' = ResumeFileName
          /\ InterviewProgress' = InterviewProgress
          /\ Len(History') > Len(History)
          /\ LastResponse' = FixedGreeting]_vars

\* A greeting answered in a session with a resume on record and STAR mode on.
C5_Witness ==
    /\ IsRouterCall
    /\ Greets(last.user_input)
    /\ last.star_mode
    /\ StarMode
    /\ ResumeText # ""
    /\ LastResponse = FixedGreeting

(***************************************************************************)
(* C6.  With no resume on record (resumeUploaded false), the router's      *)
(* resume branch and each analytics function that reads the resume         *)
(* (analyze_resume_for_role, detect_skill_gaps,                            *)
(* calculate_resume_job_match, reverse_job_matcher, resume_heatmap)        *)
(* return the fixed upload notice and call neither the Gateway nor the     *)
(* job search.                                                             *)
(***************************************************************************)
C6_NoResumeRefused ==
    ~ResumeUploaded =>
        /\ (last.op = "chat_endpoint" /\ last.branch = "resume") =>
               (last.response = CHAT_UPLOAD_NOTICE /\ NoCalls(last))
        /\ (last.op = "agent_controller" /\ last.branch = "improve") =>
               (last.response = UPLOAD_NOTICE /\ NoCalls(last))
        /\ last.fn \in {"detect_skill_gaps", "calculate_resume_job_match",
                        "reverse_job_matcher", "resume_heatmap"} =>
               (last.response = UPLOAD_NOTICE /\ NoCalls(last) /\ ~last.raised)

\* The heatmap was asked for in a stored session that holds no resume.
C6_Witness ==
    /\ ~ResumeUploaded
    /\ ResumeText = ""
    /\ "resume_file" \in DOMAIN Session
    /\ last.fn = "resume_heatmap"
    /\ last.response = UPLOAD_NOTICE
    /\ NoCalls(last)

(***************************************************************************)
(* C7.  In every reachable state resumeUploaded is true exactly when       *)
(* resumeText is not empty.                                                *)
(***************************************************************************)
C7_UploadedIffText == ResumeUploaded <=> ResumeText # ""

(***************************************************************************)
(* C8.  After any number of router calls the stored history holds at most  *)
(* 50 entries and conversationPairs at most 20 pairs.                      *)
(***************************************************************************)
C8_Capped == Len(History) <= 50 /\ Len(ConversationPairs) <= 20

(***************************************************************************)
(* C9.  An append that pushes history or conversationPairs over its cap    *)
(* removes the oldest entries only: what is kept is the most recent 50     *)
(* history entries and the most recent 20 pairs, in the order they were    *)
(* appended, and each sequence is trimmed by its own count.                *)
(***************************************************************************)
C9_NewestKept ==
    app = "backend" =>
        /\ History = LastN(histLog, 50)
        /\ ConversationPairs = LastN(pairLog, 20)

\* Both sequences have lost entries, not the same number of them.
C9_Witness ==
    /\ app = "backend"
    /\ Len(histLog) > 50
    /\ Len(pairLog) > 20
    /\ Len(histLog) - Len(History) # Len(pairLog) - Len(ConversationPairs)
    /\ History[1].time > 0
    /\ ConversationPairs[1].timestamp > 0

(***************************************************************************)
(* C10.  load_memory called right after save_memory for the same user      *)
(* returns the record that was handed to save_memory, field for field,     *)
(* its timestamps included.                                                *)
(***************************************************************************)
C10_RoundTrip ==
    (last.op = "load_memory" /\ last.saved # <<>>) => last.loaded = last.saved

\* The upstream of the last job search failed: the request raised, was refused,
\* or gave no card that parses (no job, for the JSearch API).
UpstreamFailed ==
    LET up == last.result[1].up
    IN \/ up.raised
       \/ up.status_code # 200
       \/ last.op = "get_jobs" /\ \A i \in 1..Len(up.cards) : up.cards[i].broken
       \/ last.op = "root_search_jobs" /\ Len(up.data) = 0

(***************************************************************************)
(* C11.  The job search never raises and never returns an empty sequence;  *)
(* when the upstream fails it returns exactly one listing, and the url of  *)
(* that listing is the same for every failure with the same query.         *)
(***************************************************************************)
C11_FallbackListing ==
    last.op \in {"get_jobs", "root_search_jobs"} =>
        /\ ~last.raised
        /\ Len(last.result[1].jobs) > 0
        /\ UpstreamFailed =>
               /\ Len(last.result[1].jobs) = 1
               /\ last.op = "get_jobs" =>
                      \A up \in JobUpstreams :
                          (up.raised \/ up.status_code # 200) =>
                              get_jobs(last.user_input, JOB_LIMIT, up)[1].url
                                  = last.result[1].jobs[1].url

(***************************************************************************)
(* C12.  The score displayed for a row is an integer in 0..100: the value  *)
(* of the first run of one to three digits of the score field, 100 if that *)
(* value is above 100, 0 if the field holds no digit.                      *)
(***************************************************************************)
C12_FirstRun(t) ==
    LET at == {i \in 1..Len(t) : IsDigit(Ch(t, i))}
        first == CHOOSE i \in at : \A j \in at : i <= j
        run == {k \in 1..3 : \A j \in 0..(k - 1) : (first + j) \in at}
        len == CHOOSE k \in run : \A j \in run : j <= k
    IN IF at = {} THEN "" ELSE SubSeq(t, first, first + len - 1)

C12_ScoreClamped ==
    last.op = "heat_row" =>
        LET shown == last.result[1]
            digits == C12_FirstRun(last.user_input)
        IN /\ shown \in 0..100
           /\ digits = "" => shown = 0
           /\ digits # "" => shown = (IF ToInt(digits) > 100 THEN 100 ELSE ToInt(digits))
           /\ Contains(last.response, "  **" \o ToString(shown) \o "% - ")

\* A score field of 150 was displayed as 100.
C12_Witness ==
    /\ last.op = "heat_row"
    /\ last.user_input = "150"
    /\ last.result = <<100>>
    /\ Contains(last.response, "**100% - ")

(***************************************************************************)
(* C13.  The bar of a row with score s is floor(s/10) filled segments      *)
(* followed by empty ones, ten in all, and the verdict is "Strong match"   *)
(* exactly when s >= 75, "Partial match" exactly when 40 <= s <= 74 and    *)
(* "Weak match" exactly when s <= 39.                                      *)
(***************************************************************************)
C13_BarAndVerdict ==
    last.op = "heat_row" =>
        LET s == last.result[1]
            shown == SplitLines(last.response)[2]
            bar == SubSeq(shown, 1, 10)
            label == "  **" \o ToString(s) \o "% - "
            verdict == SubSeq(shown, 11 + Len(label), Len(shown) - 2)
        IN /\ \A i \in 1..10 : Ch(bar, i) = (IF i <= s \div 10 THEN "*" ELSE "o")
           /\ SubSeq(shown, 11, 10 + Len(label)) = label
           /\ SubSeq(shown, Len(shown) - 1, Len(shown)) = "**"
           /\ verdict \in {"Strong match", "Partial match", "Weak match"}
           /\ verdict = "Strong match" <=> s >= 75
           /\ verdict = "Partial match" <=> (40 <= s /\ s <= 74)
           /\ verdict = "Weak match" <=> s <= 39

\* The row of score 75: seven filled segments, three empty, a strong match.
C13_Witness ==
    /\ last.op = "heat_row"
    /\ last.result = <<75>>
    /\ SplitLines(last.response)[2] = "*******ooo  **75% - Strong match**"

\* resume_heatmap asked the Gateway: the session held a resume.
HeatmapAsked == last.fn = "resume_heatmap" /\ last.llm # <<>>

\* A line of the answer with the separator, at least three fields, and a first
\* field that is not a header word.
ValidRow(line) ==
    /\ Contains(line, "|")
    /\ Len(Split(line, "|")) >= 3
    /\ Lower(Strip(Split(line, "|")[1])) \notin {"section", "score", "---"}

(***************************************************************************)
(* C14.  resume_heatmap returns the heatmap under the fixed header exactly *)
(* when some line of the Gateway's answer is a valid row, and the          *)
(* could-not-generate notice when none is; never the header alone.         *)
(***************************************************************************)
C14_HeaderIffRows ==
    HeatmapAsked =>
        LET lines == SplitLines(last.result[1])
            some_row == \E i \in 1..Len(lines) : ValidRow(lines[i])
        IN /\ StartsWith(last.response, HEATMAP_HEADER) <=> some_row
           /\ ~some_row => last.response = HEATMAP_FAILED
           /\ last.response # HEATMAP_HEADER

(***************************************************************************)
(* C15.  With a resume stored, resume_heatmap returns a string, the        *)
(* heatmap or the notice, whatever text the Gateway returned: no line of   *)
(* the answer makes it raise.                                              *)
(***************************************************************************)
C15_NeverRaises ==
    HeatmapAsked =>
        /\ ~last.raised
        /\ \/ StartsWith(last.response, HEATMAP_HEADER)
           \/ last.response = HEATMAP_FAILED

(***************************************************************************)
(* C16.  When the model call of a router call fails, nothing is raised and *)
(* the reply is the warning marker followed by the failure detail; the     *)
(* router returns it and stores it as it stores any reply: as the          *)
(* assistant entry of history and of the conversation pairs (backend) and  *)
(* as lastResponse, with STAR mode ended and the resume fields and the     *)
(* interview progress untouched.                                           *)
(***************************************************************************)
C16_FailedCall(l) == l.outcome # <<>> /\ ~l.outcome[1].ok

C16_FailureIsAReply ==
    [][(chats' = chats + 1 /\ C16_FailedCall(last')) =>
          LET reply == "[warning] LLM error: " \o last'.outcome[1].text
          IN /\ ~last'.raised
             /\ last'.response = reply
             /\ LastResponse' = reply
             /\ Len(History') > Len(History)
             /\ app = "backend" =>
                    /\ History'[Len(History')].type = "assistant_response"
                    /\ History'[Len(History')].assistant = reply
                    /\ Len(ConversationPairs') = Len(ConversationPairs) + 1
                    /\ ConversationPairs'[Len(ConversationPairs')].user
                           = last'.user_input
                    /\ ConversationPairs'[Len(ConversationPairs')].assistant = reply
             /\ ~StarMode'
             /\ ResumeText' = ResumeText
             /\ ResumeUploaded' = ResumeUploaded
             /\ ResumeFileName' = ResumeFileName
             /\ InterviewProgress' = InterviewProgress]_vars

(***************************************************************************)
(* C17.  With the file missing or not JSON, load_memory raises nothing and *)
(* returns the empty record (no history, no resume, flags off), and the    *)
(* save_memory that follows raises nothing and leaves a readable file that *)
(* holds the user's record.                                                *)
(***************************************************************************)
C17_EmptyRecord(m) ==
    /\ Get(m, "history", <<>>) = <<>>
    /\ Get(m, "resume_text", "") = ""
    /\ ~Get(m, "resume_uploaded", FALSE)
    /\ ~Get(m, "star_mode", FALSE)

C17_DamagedFileRecovered ==
    [][(file.status # "ok" /\ clock' = clock
           /\ last'.op \in {"load_memory", "save_memory"}) =>
          /\ ~last'.raised
          /\ last'.op = "load_memory" =>
                 /\ last'.loaded # <<>>
                 /\ C17_EmptyRecord(last'.loaded[1])
          /\ last'.op = "save_memory" =>
                 /\ file'.status = "ok"
                 /\ last'.user_input \in DOMAIN file'.data]_vars

(***************************************************************************)
(* C18.  After clear_memory, load_memory returns the empty record: no      *)
(* history, no conversation pairs, no resume text, resumeUploaded and      *)
(* starMode false, no last response, interview at index 0 with no answers  *)
(* and no start time.  A step of any other operation keeps every user's    *)
(* record in the file and keeps a non-empty history non-empty.             *)
(***************************************************************************)
C18_ClearResets ==
    [][/\ last'.op = "clear_memory" =>
              LET m == load_memory(file', "default", clock')
              IN /\ m["history"] = <<>>
                 /\ m["conversation_pairs"] = <<>>
                 /\ m["resume_text"] = ""
                 /\ ~m["resume_uploaded"]
                 /\ ~m["star_mode"]
                 /\ m["last_response"] = ""
                 /\ m["interview"]["index"] = 0
                 /\ m["interview"]["answers"] = <<>>
                 /\ m["interview"]["started_at"] = None
       /\ last'.op # "clear_memory" =>
              /\ file.status = "ok" =>
                     /\ file'.status = "ok"
                     /\ DOMAIN file.data \subseteq DOMAIN file'.data
              /\ History # <<>> => History' # <<>>
              /\ ConversationPairs # <<>> => ConversationPairs' # <<>>]_vars

\* A session with a conversation and a resume behind it has been cleared.
C18_Witness ==
    /\ last.op = "clear_memory"
    /\ chats > 0
    /\ file.status = "ok"
    /\ "default" \in DOMAIN file.data
    /\ History = <<>>
    /\ ~ResumeUploaded

(***************************************************************************)
(* C19.  A router call leaves resumeText, resumeUploaded and               *)
(* resumeFileName as they were before it, on every branch; a step that     *)
(* changes one of them is an upload or a clear.                            *)
(***************************************************************************)
C19_ResumeFieldsChanged ==
    \/ ResumeText' # ResumeText
    \/ ResumeUploaded' # ResumeUploaded
    \/ ResumeFileName' # ResumeFileName

C19_RouterKeepsResume ==
    [][/\ chats' = chats + 1 => ~C19_ResumeFieldsChanged
       /\ C19_ResumeFieldsChanged =>
              last'.op \in {"upload_resume", "resume_handler",
                            "clear_resume", "clear_memory"}]_vars

\* A resume question answered by the router, the resume still on record.
C19_Witness ==
    /\ IsRouterCall
    /\ last.branch = "resume"
    /\ last.resume_uploaded
    /\ last.llm # <<>>
    /\ ResumeUploaded
    /\ ResumeText # ""
    /\ ResumeFileName # ""

(***************************************************************************)
(* C20.  Two router calls, one after the other, with the same trimmed and  *)
(* lowercased text, the same starMode and the same resumeUploaded at their *)
(* start take the same branch and the same sub-branch and leave the same   *)
(* starMode, whatever the rest of the session, the model's answer and the  *)
(* job search come to.                                                     *)
(***************************************************************************)
C20_SameInput ==
    /\ IsRouterCall
    /\ chats' = chats + 1
    /\ last'.op = last.op
    /\ last'.text = last.text
    /\ last'.star_mode = last.star_mode
    /\ last'.resume_uploaded = last.resume_uploaded

C21_Applies ==
    /\ IsRouterCall
    /\ ~Greets(last.user_input)
    /\ ~last.star_mode
    /\ Mentions[last.user_input]
           \cap {"star", "behavioral", "interview story", "based on my resume",
                 "from my resume", "my resume", "according to my resume"} = {}

C21_Improve(m) == {"improve", "resume"} \subseteq Mentions[m]
C21_Interview(m) == {"interview", "question"} \subseteq Mentions[m]

\* What the bodies of the four branches leave in the reply and the calls made.
C21_BodyRan(l) ==
    {b \in {"jobs", "improve", "interview", "default"} :
        \/ b = "jobs" /\ Len(l.jobs) = 1 /\ l.llm = <<>>
        \/ b = "improve" /\ l.jobs = <<>>
              /\ \/ l.llm = <<>> /\ l.response = UPLOAD_NOTICE
                 \/ Asked(l, "resume_for_role")
                       /\ l.llm[1].user_prompt.b \in {DEFAULT_ROLE, ROOT_DEFAULT_ROLE}
        \/ b = "interview" /\ l.jobs = <<>> /\ Asked(l, "interview_questions")
              /\ l.llm[1].user_prompt.a = l.user_input
        \/ b = "default" /\ l.jobs = <<>> /\ Asked(l, "verbatim")
              /\ l.llm[1].user_prompt.a = l.user_input}

(***************************************************************************)
(* C21.  As stated: below the first four branches the router takes the     *)
(* first of job keyword, "improve" and "resume", "interview" and           *)
(* "question", default Gateway query.                                      *)
(***************************************************************************)
C21_JobsBeforeTemplates ==
    C21_Applies =>
        C21_BodyRan(last) =
            {IF Mentions[last.user_input] \cap JOB_KEYWORDS # {} THEN "jobs"
             ELSE IF C21_Improve(last.user_input) THEN "improve"
             ELSE IF C21_Interview(last.user_input) THEN "interview"
             ELSE "default"}

(***************************************************************************)
(* C21, amended.  Below the first four branches agent_controller takes the *)
(* first of "improve" and "resume" (role-improvement template, fixed       *)
(* role), "interview" and "question" (interview-question template on the   *)
(* raw text), job keyword (job, jobs, internship, intern), default Gateway *)
(* query; chat_endpoint has neither template there and takes job search on *)
(* a job keyword (its seven) and the default Gateway query otherwise.      *)
(***************************************************************************)
C21_TemplatesBeforeJobs ==
    C21_Applies =>
        C21_BodyRan(last) =
            {IF last.op = "chat_endpoint"
             THEN IF Mentions[last.user_input] \cap JOB_KEYWORDS # {} THEN "jobs"
                  ELSE "default"
             ELSE IF C21_Improve(last.user_input) THEN "improve"
             ELSE IF C21_Interview(last.user_input) THEN "interview"
             ELSE IF Mentions[last.user_input] \cap ROOT_JOB_KEYWORDS # {} THEN "jobs"
             ELSE "default"}

\* agent_controller answered a message with a job keyword, "interview" and
\* "question" from the interview-question template.
C21_Witness ==
    /\ C21_Applies
    /\ last.op = "agent_controller"
    /\ "job" \in Mentions[last.user_input]
    /\ C21_Interview(last.user_input)
    /\ C21_BodyRan(last) = {"interview"}

\* The string extract_text_from_file returns reports a failure.
C22_Unsupported(t) == Take(t, 18) = "Unsupported file: "
C22_ExtractionError(t) == Take(t, 23) = "Error extracting text: "

(***************************************************************************)
(* C22.  An upload whose text extraction reports a failure (unsupported    *)
(* format, extraction error) leaves resumeText, resumeUploaded and         *)
(* resumeFileName as they were, and the string reporting the failure is    *)
(* not the stored resume text afterwards.                                  *)
(***************************************************************************)
C22_FailedUploadStoresNothing ==
    [][(last'.op = "upload_resume"
           /\ (C22_Unsupported(last'.response) \/ C22_ExtractionError(last'.response)))
        => /\ ~C19_ResumeFieldsChanged
           /\ ResumeText' # last'.response]_vars

\* The entry the caller p appended is in the history of its user in the file.
C23_Persisted(p) ==
    /\ file.status = "ok"
    /\ procs[p].user_id \in DOMAIN file.data
    /\ \E i \in DOMAIN file.data[procs[p].user_id]["history"] :
           file.data[procs[p].user_id]["history"][i].user = writer_message(p)

\* Some step of a caller was taken while another caller was between its load
\* and its write.
C23_Interleaved == \E p \in Writers : procs[p].overlapped

(***************************************************************************)
(* C23.  When the callers of the store run one after the other, the update *)
(* of every caller that has finished is in the file; when their steps      *)
(* interleave, the update of the caller that wrote last is in the file     *)
(* (and the update of another may be missing: the witness).                *)
(***************************************************************************)
C23_SingleWriterKeepsAll ==
    /\ ~C23_Interleaved =>
           \A p \in Writers : procs[p].pc = "done" => C23_Persisted(p)
    /\ last.op = "add_to_history" =>
           \E p \in Writers : /\ writer_message(p) = last.user_input
                               /\ C23_Persisted(p)

\* Two callers for two different users have finished, and the record of the
\* first is not in the file: the second wrote the contents it had read
\* before the first wrote.
C23_Witness ==
    /\ \A p \in Writers : procs[p].pc = "done"
    /\ procs[1].user_id # procs[2].user_id
    /\ ~C23_Persisted(1)
    /\ C23_Persisted(2)
    /\ C23_Interleaved

(***************************************************************************)
(* C24.  Every listing get_jobs returns, parsed from a card or the         *)
(* fallback, has a description of at most 120 characters, the ellipsis of  *)
(* a truncation included, with no run of two spaces and no space at either *)
(* end.                                                                    *)
(***************************************************************************)
C24_DescriptionBounded ==
    last.op = "get_jobs" =>
        \A i \in DOMAIN last.result[1].jobs :
            LET description == last.result[1].jobs[i].description
            IN /\ Len(description) <= 120
               /\ ~Contains(description, "  ")
               /\ Strip(description) = description

\* The entries of the given type among those a step appended to the history.
C25_Added(type) ==
    {i \in (Len(History) + 1)..Len(History') : History'[i].type = type}

(***************************************************************************)
(* C25.  A chat_endpoint call appends to the history one entry for the     *)
(* user's message and one entry for the reply, and appends one             *)
(* conversation pair (the caps are not reached in these conversations).    *)
(***************************************************************************)
C25_OneEntryEach ==
    [][(last'.op = "chat_endpoint" /\ chats' = chats + 1) =>
          /\ Cardinality(C25_Added("user_input")) = 1
          /\ Cardinality(C25_Added("assistant_response")) = 1
          /\ Len(ConversationPairs') = Len(ConversationPairs) + 1]_vars

\* The keyword is in the lowercased resume of the last search by skills.
C26_Has(k) == Contains(Lower(last.user_input), k)

(***************************************************************************)
(* C26.  search_jobs_by_skills searches for the first keyword of the       *)
(* resume among python, java, javascript, data, aws or cloud, and for the  *)
(* default role when there is none; a resume with "javascript" and without *)
(* "python" is searched as "javascript developer".                         *)
(***************************************************************************)
C26_KeywordOrder ==
    last.op = "search_jobs_by_skills" =>
        last.jobs =
            <<IF C26_Has("python") THEN "python developer"
              ELSE IF C26_Has("javascript") THEN "javascript developer"
              ELSE IF C26_Has("java") THEN "java developer"
              ELSE IF C26_Has("data") THEN "data scientist"
              ELSE IF C26_Has("aws") \/ C26_Has("cloud") THEN "devops engineer"
              ELSE DEFAULT_ROLE>>

\* The calls at once that took the branch.
C27_Took(branch) == {p \in Callers : procs[p].branch = branch}

(***************************************************************************)
(* C27.  After one activation of STAR mode, of two chat_endpoint calls     *)
(* made at once at most one takes the STAR continuation, as long as        *)
(* neither activates STAR mode again; and a call that activates STAR mode  *)
(* does not send its own message to the STAR template.                     *)
(***************************************************************************)
C27_OneStoryPerActivation ==
    /\ C27_Took("star_activate") = {} => Cardinality(C27_Took("star_story")) <= 1
    /\ \A p \in Callers :
           procs[p].branch = "star_activate" =>
               procs[p].response \in {"", STAR_INSTRUCTIONS}

(***************************************************************************)
(* C28.  With one caller at a time, a write of the store for one user      *)
(* (save_memory, add_to_history, set_resume, clear_resume, set_star_mode,  *)
(* update_interview_progress, clear_memory) leaves the record of every     *)
(* other user as it was, present or absent; load_memory leaves the file as *)
(* it was, and for a user without a record it returns the empty defaults.  *)
(***************************************************************************)
C28_OtherUsersKept ==
    [][/\ last'.op = "store_write" =>
              /\ file'.status = "ok"
              /\ last'.user_input \in DOMAIN file'.data
              /\ \A u \in Users \ {last'.user_input} :
                     /\ u \in DOMAIN file'.data <=> u \in DOMAIN file.data
                     /\ u \in DOMAIN file.data => file'.data[u] = file.data[u]
       /\ last'.op = "load_memory" =>
              /\ file' = file
              /\ last'.user_input \notin DOMAIN file.data =>
                     C17_EmptyRecord(last'.loaded[1])]_vars

\* The session of "alice" was cleared and the record of "default", with its
\* history and its resume, is still in the file.
C28_Witness ==
    /\ last.op = "store_write"
    /\ last.fn = "clear_memory"
    /\ last.user_input = "alice"
    /\ file.data["alice"]["history"] = <<>>
    /\ "default" \in DOMAIN file.data
    /\ History # <<>>
    /\ ResumeUploaded

\* The story of a STAR turn met a failing model: the warning is the stored reply.
C16_Witness ==
    /\ IsRouterCall
    /\ C16_FailedCall(last)
    /\ last.branch = "star_story"
    /\ last.star_mode
    /\ ~StarMode
    /\ LastResponse = "[warning] LLM error: 429 quota exceeded"
====
